---- MODULE Spec2Model ----
(***************************************************************************)
(* hrosailing: the missing-value filler of the polar-diagram table.        *)
(*                                                                         *)
(* interpolate_missing_values(ws_res, wa_res, bsps, interpolator) of       *)
(* hrosailing/polardiagram/_incompletedatahandler.py is modelled as a      *)
(* state machine that walks the function's control flow (scan, the two     *)
(* early returns, the row-major fill loop, the final return), and as the   *)
(* pure operator InterpolateMissingValues built from the same pieces.      *)
(*                                                                         *)
(* A matrix cell is a tagged value: Nan is numpy's not-a-number, Num(x)    *)
(* a number.  The interpolator is a caller-supplied object, so it is an    *)
(* oracle: for the query made at a grid cell it either raises or returns   *)
(* a value (NaN, a negative or a positive number).                         *)
(*                                                                         *)
(* Further specifications of the module: CsvSpec is from_csv of            *)
(* polardiagram/_reading.py with its own copy of the filler, WindSpec the  *)
(* functions of wind.py, InfluenceSpec the two influence models of         *)
(* pipelinecomponents/influencemodel.py.                                   *)
(***************************************************************************)
EXTENDS Integers, Sequences, FiniteSets, TLC

\* ---------------------------------------------------------------- bounds
MaxWa == 2          \* most wind angles (matrix rows)
MaxWs == 3          \* most wind speeds (matrix columns)
MaxUnknown == 2     \* most unknown (NaN) cells of an input matrix
MaxRows == 2        \* most data rows of a file
MaxCols == 2        \* most wind speed columns of a file
MaxEmpty == 1       \* most empty boat speed fields of a file
MaxRes == 3         \* most values of a resolution
MaxWindRows == 2    \* most rows of a wind array
MaxData == 2        \* most points of the influence data

\* ------------------------------------------------------ program constants
Radius == 2         \* nbh.Ball(radius=2.0)
MinValidPoints == 3 \* if len(valid_points) < 3

\* ------------------------------------------------------------ cell values
Nan == [nan |-> TRUE, v |-> 0]
Num(x) == [nan |-> FALSE, v |-> x]

\* np.isnan(val)
IsNan(val) == val.nan

\* the literal 0.0 the filler writes
Zero == Num(0)

\* a > b on floats: every comparison with NaN is false
FloatGt(a, b) == ~IsNan(a) /\ ~IsNan(b) /\ a.v > b.v

\* variant: the arguments the other way round, max(b, a)
PyMaxSwapped(a, b) == IF FloatGt(a, b) THEN a ELSE b

\* Python's max(a, b): b only if b > a, else the first argument
PyMax(a, b) == IF FloatGt(b, a) THEN b ELSE a

\* ------------------------------------------------------------ input sets
\* the known boat speeds of a table: all positive and distinct, or a mix of
\* negative, zero and positive values
KnownTables == {"positive", "mixed"}
KnownValue(t, i, j) ==
    IF t = "positive" THEN (10 * i) + j ELSE ((i + j) % 3) - 1

\* the grids, as <<wind speed step, wind angle step>>: a fine grid, where
\* with the radius 2.0 a cell's neighbours in its row, in its column and on
\* the diagonal are in range, and a coarse grid as in the tests' data
\* (speeds 6, 8, 10, angles 30, 45, 60), where only the two neighbours in
\* the row are in range, at distance exactly 2.0
Grids == {<<1, 1>>, <<2, 3>>}

Raise == [raised |-> TRUE, val |-> Nan]
Return(val) == [raised |-> FALSE, val |-> val]
InterpVals == {Nan, Num(-2), Num(3)}
Outcomes == {Raise} \cup {Return(val) : val \in InterpVals}

\* the evenly spaced axis of length n that starts at 0
Axis(n, step) == [k \in 1..n |-> (k - 1) * step]

Positions(m) == {<<i, j>> : i \in 1..Len(m), j \in 1..Len(m[1])}
Unknown(m) == {p \in Positions(m) : IsNan(m[p[1]][p[2]])}
Known(m) == Positions(m) \ Unknown(m)

\* the nwa x nws matrices, one row per wind angle and one column per wind
\* speed: a table of known values with at most MaxUnknown cells replaced by
\* NaN
Matrices(nwa, nws) ==
    {[i \in 1..nwa |-> [j \in 1..nws |->
          IF <<i, j>> \in U THEN Nan ELSE Num(KnownValue(t, i, j))]] :
        t \in KnownTables,
        U \in {V \in SUBSET ((1..nwa) \X (1..nws)) : Cardinality(V) <= MaxUnknown}}

\* ------------------------------------------------------ has_missing_values
\* variant: "return False" one level too deep, so only the first row is scanned
HasMissingFirstRow(m) ==
    \E j \in 1..Len(m[1]) : IsNan(m[1][j])

HasMissingValues(m) ==
    \E i \in 1..Len(m) : \E j \in 1..Len(m[i]) : IsNan(m[i][j])

\* ------------------------------------- interpolate_missing_values, pieces

\* every cell as (ws, wa, bsp), in the order of the nested enumerate loops
AllPoints(ws, wa, m) ==
    [k \in 1..(Len(wa) * Len(ws)) |->
        LET i == ((k - 1) \div Len(ws)) + 1
            j == ((k - 1) % Len(ws)) + 1
        IN  <<ws[j], wa[i], m[i][j]>>]

\* valid_points: the (ws, wa, bsp) of every cell that is not NaN
ValidPoints(ws, wa, m) ==
    SelectSeq(AllPoints(ws, wa, m), LAMBDA p : ~IsNan(p[3]))

\* [[0.0 if np.isnan(val) else val for val in row] for row in bsps]
ZeroFill(m) ==
    [i \in 1..Len(m) |->
        [j \in 1..Len(m[i]) |-> IF IsNan(m[i][j]) THEN Zero ELSE m[i][j]]]

\* variant: the sparsity check placed before the no-gap check
BranchSparseFirst(has_missing, valid_points) ==
    IF Len(valid_points) < MinValidPoints THEN "sparse"
    ELSE IF ~has_missing THEN "unchanged"
    ELSE "fill"

\* variant: the sparsity threshold off by one, len(valid_points) < 2
BranchOffByOne(has_missing, valid_points) ==
    IF ~has_missing THEN "unchanged"
    ELSE IF Len(valid_points) < MinValidPoints - 1 THEN "sparse"
    ELSE "fill"

\* lines 67-71: which return the function takes after the scan (the third
\* return, `if not points_data` at lines 85-88, cannot be taken: points_data
\* has the length of valid_points, which is at least 3 there)
Branch(has_missing, valid_points) ==
    IF ~has_missing THEN "unchanged"
    ELSE IF Len(valid_points) < MinValidPoints THEN "sparse"
    ELSE "fill"

\* Ball(radius).is_contained_in on one offset: Euclidean norm <= radius
IsContainedIn(radius, offset) ==
    (offset[1] * offset[1]) + (offset[2] * offset[2]) <= radius * radius

\* variant: the neighbourhood without its boundary, norm < radius
ConsideredPointsOpen(points, grid_point) ==
    SelectSeq(points,
        LAMBDA p : (((p[1] - grid_point[1]) * (p[1] - grid_point[1]))
                    + ((p[2] - grid_point[2]) * (p[2] - grid_point[2])))
                       < Radius * Radius)

\* weighted_points[considered_points]: the valid points whose coordinates
\* lie in the neighbourhood of grid_point, in their original order
ConsideredPoints(points, grid_point) ==
    SelectSeq(points,
        LAMBDA p : IsContainedIn(Radius,
                       <<p[1] - grid_point[1], p[2] - grid_point[2]>>))

\* variant: the interpolated value appended without max(0.0, .)
TryBodyNoClamp(ws, wa, points, interpolator, i, j) ==
    LET grid_point == <<ws[j], wa[i]>>
        considered == ConsideredPoints(points, grid_point)
        call == [cell |-> <<i, j>>, pts |-> considered]
        r == interpolator[<<i, j>>]
    IN  IF considered # <<>>
        THEN [raised |-> r.raised, val |-> r.val, calls |-> <<call>>]
        ELSE [raised |-> FALSE, val |-> Zero, calls |-> <<>>]

\* variant: no np.any guard, the interpolator is asked for every unknown cell
TryBodyNoGuard(ws, wa, points, interpolator, i, j) ==
    LET grid_point == <<ws[j], wa[i]>>
        considered == ConsideredPoints(points, grid_point)
        call == [cell |-> <<i, j>>, pts |-> considered]
        r == interpolator[<<i, j>>]
    IN  IF r.raised
        THEN [raised |-> TRUE, val |-> Nan, calls |-> <<call>>]
        ELSE [raised |-> FALSE, val |-> PyMax(Zero, r.val), calls |-> <<call>>]

\* variant: a cell with no nearby point is left unknown instead of 0.0
TryBodyKeepIsolated(ws, wa, points, interpolator, i, j) ==
    LET grid_point == <<ws[j], wa[i]>>
        considered == ConsideredPoints(points, grid_point)
        call == [cell |-> <<i, j>>, pts |-> considered]
        r == interpolator[<<i, j>>]
    IN  IF considered # <<>>
        THEN IF r.raised
             THEN [raised |-> TRUE, val |-> Nan, calls |-> <<call>>]
             ELSE [raised |-> FALSE, val |-> PyMax(Zero, r.val),
                   calls |-> <<call>>]
        ELSE [raised |-> FALSE, val |-> Nan, calls |-> <<>>]

\* lines 109-122: the body of the try block for the unknown cell (i, j);
\* raised says interpolator.interpolate raised
TryBody(ws, wa, points, interpolator, i, j) ==
    LET grid_point == <<ws[j], wa[i]>>
        considered == ConsideredPoints(points, grid_point)
        call == [cell |-> <<i, j>>, pts |-> considered]
        r == interpolator[<<i, j>>]
    IN  IF considered # <<>>
        THEN IF r.raised
             THEN [raised |-> TRUE, val |-> Nan, calls |-> <<call>>]
             ELSE [raised |-> FALSE, val |-> PyMax(Zero, r.val),
                   calls |-> <<call>>]
        ELSE [raised |-> FALSE, val |-> Zero, calls |-> <<>>]

\* variant: the exception is not caught
ExceptReraise(t) == t

\* lines 123-124: the bare except clause, whatever was raised append 0.0
ExceptFallback(t) ==
    IF t.raised THEN [raised |-> FALSE, val |-> Zero, calls |-> t.calls] ELSE t

\* variant: the clamp applied to known values too
FillCellClampKnown(ws, wa, m, points, interpolator, i, j) ==
    IF ~IsNan(m[i][j])
    THEN [raised |-> FALSE, val |-> PyMax(Zero, m[i][j]), calls |-> <<>>]
    ELSE ExceptFallback(TryBody(ws, wa, points, interpolator, i, j))

\* variant: the interpolator is asked before the cell is looked at, for
\* the known cells too
FillCellAskFirst(ws, wa, m, points, interpolator, i, j) ==
    LET asked == ExceptFallback(TryBody(ws, wa, points, interpolator, i, j))
    IN  IF ~IsNan(m[i][j])
        THEN [raised |-> FALSE, val |-> m[i][j], calls |-> asked.calls]
        ELSE asked

\* lines 101-124: one iteration of the inner loop, val is what is appended
\* to filled_row
FillCell(ws, wa, m, points, interpolator, i, j) ==
    IF ~IsNan(m[i][j])
    THEN [raised |-> FALSE, val |-> m[i][j], calls |-> <<>>]
    ELSE ExceptFallback(TryBody(ws, wa, points, interpolator, i, j))

\* lines 100-124: the inner loop over ws_res for row i, from column j on;
\* acc is [raised, row, calls] so far; a raise that escapes a cell ends it
RECURSIVE InnerLoop(_, _, _, _, _, _, _, _)
InnerLoop(ws, wa, m, points, interpolator, i, j, acc) ==
    IF j > Len(ws) THEN acc
    ELSE LET c == FillCell(ws, wa, m, points, interpolator, i, j)
         IN  IF c.raised
             THEN [raised |-> TRUE, row |-> acc.row, calls |-> acc.calls \o c.calls]
             ELSE InnerLoop(ws, wa, m, points, interpolator, i, j + 1,
                      [raised |-> FALSE, row |-> Append(acc.row, c.val),
                       calls |-> acc.calls \o c.calls])

\* variant: one try around the whole inner loop, so the first raise of a
\* row appends 0.0 and ends the row
RECURSIVE InnerLoopOneTry(_, _, _, _, _, _, _, _)
InnerLoopOneTry(ws, wa, m, points, interpolator, i, j, acc) ==
    IF j > Len(ws) THEN acc
    ELSE LET c == IF ~IsNan(m[i][j])
                  THEN [raised |-> FALSE, val |-> m[i][j], calls |-> <<>>]
                  ELSE TryBody(ws, wa, points, interpolator, i, j)
         IN  IF c.raised
             THEN [raised |-> FALSE, row |-> Append(acc.row, Zero),
                   calls |-> acc.calls \o c.calls]
             ELSE InnerLoopOneTry(ws, wa, m, points, interpolator, i, j + 1,
                      [raised |-> FALSE, row |-> Append(acc.row, c.val),
                       calls |-> acc.calls \o c.calls])

FillRowOneTry(ws, wa, m, points, interpolator, i) ==
    InnerLoopOneTry(ws, wa, m, points, interpolator, i, 1,
        [raised |-> FALSE, row |-> <<>>, calls |-> <<>>])

\* variant: a value filled into a row becomes a point for the cells after
\* it in the row
RECURSIVE InnerLoopFeedback(_, _, _, _, _, _, _, _)
InnerLoopFeedback(ws, wa, m, points, interpolator, i, j, acc) ==
    IF j > Len(ws) THEN acc
    ELSE LET c == FillCell(ws, wa, m, points, interpolator, i, j)
             more == IF IsNan(m[i][j]) THEN Append(points, <<ws[j], wa[i], c.val>>)
                     ELSE points
         IN  InnerLoopFeedback(ws, wa, m, more, interpolator, i, j + 1,
                 [raised |-> FALSE, row |-> Append(acc.row, c.val),
                  calls |-> acc.calls \o c.calls])

FillRowFeedback(ws, wa, m, points, interpolator, i) ==
    InnerLoopFeedback(ws, wa, m, points, interpolator, i, 1,
        [raised |-> FALSE, row |-> <<>>, calls |-> <<>>])

\* lines 99-126: filled_row for row i, with the interpolator calls made
FillRow(ws, wa, m, points, interpolator, i) ==
    InnerLoop(ws, wa, m, points, interpolator, i, 1,
        [raised |-> FALSE, row |-> <<>>, calls |-> <<>>])

\* lines 97-128: the outer loop over wa_res from row i on, then the return
RECURSIVE OuterLoop(_, _, _, _, _, _, _)
OuterLoop(ws, wa, m, points, interpolator, i, filled) ==
    IF i > Len(wa) THEN [bsps |-> filled, flag |-> TRUE, raised |-> FALSE]
    ELSE LET r == FillRow(ws, wa, m, points, interpolator, i)
         IN  IF r.raised
             THEN [bsps |-> <<>>, flag |-> FALSE, raised |-> TRUE]
             ELSE OuterLoop(ws, wa, m, points, interpolator, i + 1,
                      Append(filled, r.row))

\* interpolate_missing_values as a function of its arguments:
\* [bsps, flag] is the returned pair, raised says an exception left it
InterpolateMissingValues(ws, wa, m, interpolator) ==
    LET valid_points == ValidPoints(ws, wa, m)
        has_missing == HasMissingValues(m)
        branch == Branch(has_missing, valid_points)
    IN  CASE branch = "unchanged" -> [bsps |-> m, flag |-> FALSE, raised |-> FALSE]
          [] branch = "sparse" -> [bsps |-> ZeroFill(m), flag |-> TRUE, raised |-> FALSE]
          [] OTHER -> OuterLoop(ws, wa, m, valid_points, interpolator, 1, <<>>)

\* ======================================================== _reading: texts
\* a text is a sequence of characters; a long word that is never taken
\* apart (a class name, the corner label of a table) is one character here

DigitChars == <<"0", "1", "2", "3", "4", "5", "6", "7", "8", "9">>
Digits == {DigitChars[k] : k \in 1..10}
DigitValue(c) == CHOOSE d \in 0..9 : DigitChars[d + 1] = c

\* words that Python reads as a name or as an expression of names
Words == {"x", "twa/tws", "PolarDiagram", "PolarDiagramTable",
          "PolarDiagramCurve", "PolarDiagramPointcloud",
          "PolarDiagramMultiSails"}

\* str(n) of an integer, as the files' writers put numbers down
RECURSIVE StrNat(_)
StrNat(n) ==
    IF n < 10 THEN <<DigitChars[n + 1]>>
    ELSE StrNat(n \div 10) \o <<DigitChars[(n % 10) + 1]>>

Str(n) == IF n < 0 THEN <<"-">> \o StrNat(-n) ELSE StrNat(n)

\* the value of a string of digits
RECURSIVE Decimal(_)
Decimal(s) ==
    IF Len(s) = 0 THEN 0
    ELSE (10 * Decimal(SubSeq(s, 1, Len(s) - 1))) + DigitValue(s[Len(s)])

\* a decimal integer literal of Python 3: digits, no leading zero unless
\* every digit is a zero
IsDecimal(s) ==
    /\ Len(s) > 0
    /\ \A k \in 1..Len(s) : s[k] \in Digits
    /\ (Len(s) > 1 /\ s[1] = "0") => \A k \in 1..Len(s) : s[k] = "0"

\* ast.literal_eval on a text of digits, signs, words and other characters:
\* the integer of a (signed) decimal literal, ValueError for a word,
\* SyntaxError for anything else, the empty text included
LiteralEval(s) ==
    IF IsDecimal(s)
    THEN [raised |-> "none", val |-> Decimal(s)]
    ELSE IF Len(s) > 1 /\ s[1] = "-" /\ IsDecimal(Tail(s))
    THEN [raised |-> "none", val |-> 0 - Decimal(Tail(s))]
    ELSE IF Len(s) = 1 /\ s[1] \in Words
    THEN [raised |-> "ValueError", val |-> 0]
    ELSE [raised |-> "SyntaxError", val |-> 0]

\* row[0].replace("Â°", ""): every occurrence of the two characters removed
RECURSIVE Replace(_)
Replace(s) ==
    IF Len(s) = 0 THEN <<>>
    ELSE IF Len(s) >= 2 /\ s[1] = "Â" /\ s[2] = "°"
    THEN Replace(SubSeq(s, 3, Len(s)))
    ELSE <<s[1]>> \o Replace(Tail(s))

Whitespace == {" ", "\n"}

\* variant: the line is compared as it was read
RstripNothing(s) == s

\* str.rstrip(): trailing whitespace removed
RECURSIVE Rstrip(_)
Rstrip(s) ==
    IF Len(s) > 0 /\ s[Len(s)] \in Whitespace
    THEN Rstrip(SubSeq(s, 1, Len(s) - 1))
    ELSE s

\* ======================================================== _reading: files
\* a file is a sequence of lines, a line the sequence of its fields as
\* csv.reader splits it (a blank line has no field), a field a text

\* the fields of a line joined by the delimiter
RECURSIVE Join(_)
Join(row) ==
    IF Len(row) = 0 THEN <<>>
    ELSE IF Len(row) = 1 THEN row[1]
    ELSE row[1] \o <<";">> \o Join(Tail(row))

\* file.readline(): the text of the next line with its newline, the empty
\* text at the end of the file
Readline(file, pos) ==
    IF pos > Len(file) THEN <<>> ELSE Join(file[pos]) \o <<"\n">>

\* the table a file is written from: speeds 6, 8, ..., angles 30, 45, ...,
\* boat speeds 0..4
SheetSpeed(j) == 4 + (2 * j)
SheetAngle(i) == 15 + (15 * i)
SheetValue(i, j) == (i + (2 * j)) % 5

HeaderRow(ncols) ==
    <<<<"twa/tws">>>> \o [j \in 1..ncols |-> Str(SheetSpeed(j))]

\* the line of zeros that follows the header in the orc format
ZeroRow(ncols) == [j \in 1..(ncols + 1) |-> Str(0)]

\* data row i with the fields of the cells in E left empty
SheetRow(i, ncols, E) ==
    <<Str(SheetAngle(i))>> \o
    [j \in 1..ncols |-> IF <<i, j>> \in E THEN <<>> ELSE Str(SheetValue(i, j))]

\* what can be irregular in a file, one thing per file: a blank line after
\* data row `row`, a data row with a field too many or one too few, a field
\* that is no literal, the angles written with a degree sign (as the two
\* characters the orc files carry, or as the sign alone)
Defects(nrows, ncols) ==
    {[kind |-> "none", row |-> 0, col |-> 0]}
    \cup {[kind |-> "blank", row |-> r, col |-> 0] : r \in 0..nrows}
    \cup {[kind |-> k, row |-> r, col |-> 0] :
            k \in {"wide", "short"}, r \in 1..nrows}
    \cup {[kind |-> "bad", row |-> r, col |-> c] : r \in 1..nrows, c \in 1..ncols}
    \cup {[kind |-> k, row |-> 0, col |-> 0] :
            k \in IF nrows > 0 THEN {"mojibake", "degree"} ELSE {}}

DefectRow(i, ncols, E, d) ==
    LET row == SheetRow(i, ncols, E)
    IN  CASE d.kind = "wide" /\ d.row = i -> Append(row, Str(9))
          [] d.kind = "short" /\ d.row = i -> SubSeq(row, 1, Len(row) - 1)
          [] d.kind = "bad" /\ d.row = i ->
                [row EXCEPT ![d.col + 1] = <<"x">>]
          [] d.kind = "mojibake" -> [row EXCEPT ![1] = @ \o <<"Â", "°">>]
          [] d.kind = "degree" -> [row EXCEPT ![1] = @ \o <<"°">>]
          [] OTHER -> row

\* the data rows from row i on
RECURSIVE DataRows(_, _, _, _, _)
DataRows(i, nrows, ncols, E, d) ==
    (IF d.kind = "blank" /\ d.row = i - 1 THEN <<<<>>>> ELSE <<>>) \o
    (IF i > nrows THEN <<>>
     ELSE <<DefectRow(i, ncols, E, d)>> \o DataRows(i + 1, nrows, ncols, E, d))

\* the table files: a header, the line of zeros or not, the data rows
TableFiles ==
    {<<HeaderRow(ncols)>> \o (IF z THEN <<ZeroRow(ncols)>> ELSE <<>>)
            \o DataRows(1, nrows, ncols, E, d) :
        <<nrows, ncols, z, E, d>> \in
            {t \in (0..MaxRows) \X (0..MaxCols) \X BOOLEAN
                    \X (SUBSET ((1..MaxRows) \X (1..MaxCols)))
                    \X Defects(MaxRows, MaxCols) :
                /\ t[4] \subseteq (1..t[1]) \X (1..t[2])
                /\ Cardinality(t[4]) <= MaxEmpty
                /\ t[5] \in Defects(t[1], t[2])}}

\* the files in the hro format: the line of the type tag, then the rest
TagLines ==
    {<<<<t>>>> : t \in Words \ {"x", "twa/tws"}}
    \cup {<<<<"PolarDiagramTable", " ">>>>, <<<<" ", "PolarDiagramCurve">>>>}

TagFiles ==
    {<<line>> \o rest : line \in TagLines,
                        rest \in {<<>>, <<SheetRow(1, 1, {})>>}}

Files == {<<>>} \cup TableFiles \cup TagFiles

\* ==================================================== _reading: the readers
Formats == {"array", "hro", "opencpn", "orc"}

\* the names of PolarDiagram.__subclasses__()
Subclasses == {"PolarDiagramCurve", "PolarDiagramMultiSails",
               "PolarDiagramPointcloud", "PolarDiagramTable"}

\* [literal_eval(f) for f in fields]: the values, or what the first field
\* that is no literal raises
RECURSIVE EvalAll(_, _)
EvalAll(fields, acc) ==
    IF Len(fields) = 0 THEN [raised |-> "none", val |-> acc]
    ELSE LET e == LiteralEval(fields[1])
         IN  IF e.raised # "none" THEN [raised |-> e.raised, val |-> <<>>]
             ELSE EvalAll(Tail(fields), Append(acc, e.val))

\* _read_wind_speeds on the row that next(csv_reader) gave
ReadWindSpeeds(row) == EvalAll(SubSeq(row, 2, Len(row)), <<>>)

\* variant: an empty field is left out of the row
RECURSIVE ReadBoatSpeedsSkipEmpty(_, _)
ReadBoatSpeedsSkipEmpty(fields, acc) ==
    IF Len(fields) = 0 THEN [raised |-> "none", val |-> acc]
    ELSE IF fields[1] = <<>>
    THEN ReadBoatSpeedsSkipEmpty(Tail(fields), acc)
    ELSE LET e == LiteralEval(fields[1])
         IN  IF e.raised # "none" THEN [raised |-> e.raised, val |-> <<>>]
             ELSE ReadBoatSpeedsSkipEmpty(Tail(fields), Append(acc, Num(e.val)))

\* [literal_eval(bsp) if bsp != "" else np.nan for bsp in fields]
RECURSIVE ReadBoatSpeeds(_, _)
ReadBoatSpeeds(fields, acc) ==
    IF Len(fields) = 0 THEN [raised |-> "none", val |-> acc]
    ELSE IF fields[1] = <<>>
    THEN ReadBoatSpeeds(Tail(fields), Append(acc, Nan))
    ELSE LET e == LiteralEval(fields[1])
         IN  IF e.raised # "none" THEN [raised |-> e.raised, val |-> <<>>]
             ELSE ReadBoatSpeeds(Tail(fields), Append(acc, Num(e.val)))

\* one iteration of the loop of _read_wind_angles_and_boat_speeds on a row
\* that is not blank: the angle and the matrix row that are appended, or
\* what literal_eval raises
ReadRow(row) ==
    LET wa == LiteralEval(Replace(row[1]))
        row_bsps == ReadBoatSpeeds(SubSeq(row, 2, Len(row)), <<>>)
    IN  IF wa.raised # "none"
        THEN [raised |-> wa.raised, wa |-> 0, bsps |-> <<>>]
        ELSE [raised |-> row_bsps.raised, wa |-> wa.val, bsps |-> row_bsps.val]

\* np.genfromtxt's reading of one field: a number, or NaN for any other text
GenFloat(f) ==
    LET e == LiteralEval(f)
    IN  IF e.raised = "none" THEN Num(e.val) ELSE Nan

\* _read_from_array: np.genfromtxt splits the lines at white space and
\* passes over blank lines; lines of different lengths are a ValueError;
\* fewer than two lines or two columns give an array of less than two
\* dimensions, which file_data[0, 1:] cannot index.  The axes of the array
\* files are plain numbers.
ReadFromArray(f) ==
    LET lines == SelectSeq(f, LAMBDA row : row # <<>>)
        fail(e) == [raised |-> e, ws_res |-> <<>>, wa_res |-> <<>>, bsps |-> <<>>]
    IN  IF \E k \in 1..Len(lines) : Len(lines[k]) # Len(lines[1])
        THEN fail("ValueError")
        ELSE IF Len(lines) < 2 \/ Len(lines[1]) < 2
        THEN fail("IndexError")
        ELSE [raised |-> "none",
              ws_res |-> [j \in 1..(Len(lines[1]) - 1) |->
                             LiteralEval(lines[1][j + 1]).val],
              wa_res |-> [i \in 1..(Len(lines) - 1) |->
                             LiteralEval(lines[i + 1][1]).val],
              bsps |-> [i \in 1..(Len(lines) - 1) |->
                           [j \in 1..(Len(lines[1]) - 1) |->
                               GenFloat(lines[i + 1][j + 1])]]]

\* ============================================= the polar-diagram table
NoTable == [cls |-> "none"]

\* the dimensions of the matrix are (len(angle axis), len(speed axis))
ShapeOk(ws, wa, m) ==
    /\ Len(m) = Len(wa)
    /\ \A i \in 1..Len(m) : Len(m[i]) = Len(ws)

\* variant: a constructor that keeps the unknown cells
PolarDiagramTableKeepNan(ws, wa, m) ==
    IF ~ShapeOk(ws, wa, m)
    THEN [raised |-> "ConstructionError", pd |-> NoTable]
    ELSE [raised |-> "none",
          pd |-> [cls |-> "PolarDiagramTable", ws_res |-> ws, wa_res |-> wa,
                  bsps |-> m, interpolation_performed |-> FALSE,
                  symmetrization_performed |-> FALSE]]

\* variant: a constructor that does not compare the dimensions
PolarDiagramTableUnchecked(ws, wa, m) ==
    [raised |-> "none",
     pd |-> [cls |-> "PolarDiagramTable", ws_res |-> ws, wa_res |-> wa,
             bsps |-> ZeroFill(m), interpolation_performed |-> FALSE,
             symmetrization_performed |-> FALSE]]

\* PolarDiagramTable(ws_res, wa_res, bsps): mismatched dimensions are
\* rejected, unknown cells are resolved to 0, both flags start false
PolarDiagramTable(ws, wa, m) ==
    IF ~ShapeOk(ws, wa, m)
    THEN [raised |-> "ConstructionError", pd |-> NoTable]
    ELSE [raised |-> "none",
          pd |-> [cls |-> "PolarDiagramTable", ws_res |-> ws, wa_res |-> wa,
                  bsps |-> ZeroFill(m), interpolation_performed |-> FALSE,
                  symmetrization_performed |-> FALSE]]

\* the angle axis mirrored: 360 - wa in reverse order, without the angles
\* that are their own mirror image
Mirrored(wa) ==
    LET n == Len(wa)
        rev == [k \in 1..n |-> n + 1 - k]
        keep == SelectSeq(rev, LAMBDA i : (360 - wa[i]) % 360 # wa[i])
    IN  keep

\* variant: the mirrored table built afresh, with the flags of a new table
SymmetrizeFresh(t) ==
    [cls |-> "PolarDiagramTable",
     ws_res |-> t.ws_res,
     wa_res |-> t.wa_res \o [k \in 1..Len(Mirrored(t.wa_res)) |->
                                (360 - t.wa_res[Mirrored(t.wa_res)[k]]) % 360],
     bsps |-> t.bsps \o [k \in 1..Len(Mirrored(t.wa_res)) |->
                            t.bsps[Mirrored(t.wa_res)[k]]],
     interpolation_performed |-> FALSE,
     symmetrization_performed |-> TRUE]

\* PolarDiagramTable.symmetrize(): a new table with the mirrored rows
\* added, marked as symmetrized, the interpolation flag carried forward
Symmetrize(t) ==
    [cls |-> "PolarDiagramTable",
     ws_res |-> t.ws_res,
     wa_res |-> t.wa_res \o [k \in 1..Len(Mirrored(t.wa_res)) |->
                                (360 - t.wa_res[Mirrored(t.wa_res)[k]]) % 360],
     bsps |-> t.bsps \o [k \in 1..Len(Mirrored(t.wa_res)) |->
                            t.bsps[Mirrored(t.wa_res)[k]]],
     interpolation_performed |-> t.interpolation_performed,
     symmetrization_performed |-> TRUE]

\* what a subclass's __from_csv__ builds from the file it is handed, the
\* file being positioned at line `pos`
FromCsv(cls, f, pos) ==
    [cls |-> cls, lines |-> SubSeq(f, pos, Len(f))]

\* ---------------------------------------- _reading: its copy of the filler
\* _has_missing_values(bsps)
ReadingHasMissingValues(m) ==
    \E i \in 1..Len(m) : \E j \in 1..Len(m[i]) : IsNan(m[i][j])

\* lines 199-204: valid_points, one (ws, wa, bsp) for every cell that is
\* not NaN, the rows in the order of wa_res and in a row the order of ws_res
RECURSIVE ReadingValidPoints(_, _, _, _, _)
ReadingValidPoints(ws, wa, m, i, j) ==
    IF i > Len(wa) THEN <<>>
    ELSE IF j > Len(ws) THEN ReadingValidPoints(ws, wa, m, i + 1, 1)
    ELSE (IF IsNan(m[i][j]) THEN <<>> ELSE <<<<ws[j], wa[i], m[i][j]>>>>)
             \o ReadingValidPoints(ws, wa, m, i, j + 1)

\* lines 215 and 229: [[0.0 if np.isnan(val) else val for val in row] for
\* row in bsps]
ReadingZeroFill(m) ==
    [i \in 1..Len(m) |->
        [j \in 1..Len(m[i]) |-> IF IsNan(m[i][j]) THEN Num(0) ELSE m[i][j]]]

\* variant: the interpolated value appended as it is
ReadingFillNoClamp(ws, wa, m, points, interpolator, i, j) ==
    IF ~IsNan(m[i][j]) THEN m[i][j]
    ELSE IF \A k \in 1..Len(points) :
                ~IsContainedIn(Radius, <<points[k][1] - ws[j],
                                         points[k][2] - wa[i]>>)
    THEN Num(0)
    ELSE IF interpolator[<<i, j>>].raised THEN Num(0)
    ELSE interpolator[<<i, j>>].val

\* lines 243-266: what is appended to filled_row for the cell (i, j): the
\* value that is there, or 0.0 with no point in the ball around the cell,
\* or 0.0 when anything is raised, or the interpolated value, at least 0.0
ReadingFill(ws, wa, m, points, interpolator, i, j) ==
    IF ~IsNan(m[i][j]) THEN m[i][j]
    ELSE IF \A k \in 1..Len(points) :
                ~IsContainedIn(Radius, <<points[k][1] - ws[j],
                                         points[k][2] - wa[i]>>)
    THEN Num(0)
    ELSE IF interpolator[<<i, j>>].raised THEN Num(0)
    ELSE PyMax(Num(0), interpolator[<<i, j>>].val)

\* variant: what a row has beyond the last wind speed is kept
ReadingFillRowsWhole(ws, wa, m, points, interpolator) ==
    [i \in 1..Len(wa) |->
        [j \in 1..Len(m[i]) |->
            IF j <= Len(ws) THEN ReadingFill(ws, wa, m, points, interpolator, i, j)
            ELSE IF IsNan(m[i][j]) THEN Num(0) ELSE m[i][j]]]

\* lines 239-268: filled_bsps, a row for every wind angle with a value for
\* every wind speed
ReadingFillRows(ws, wa, m, points, interpolator) ==
    [i \in 1..Len(wa) |->
        [j \in 1..Len(ws) |-> ReadingFill(ws, wa, m, points, interpolator, i, j)]]

\* _interpolate_missing_values(ws_res, wa_res, bsps, interpolator): the
\* pair returned (no exception leaves it once the scan of lines 199-204 has
\* found every row long enough)
ReadingInterpolateMissingValues(ws, wa, m, interpolator) ==
    IF ~ReadingHasMissingValues(m)
    THEN [bsps |-> m, flag |-> FALSE, raised |-> FALSE]
    ELSE IF Len(ReadingValidPoints(ws, wa, m, 1, 1)) < MinValidPoints
    THEN [bsps |-> ReadingZeroFill(m), flag |-> TRUE, raised |-> FALSE]
    ELSE [bsps |-> ReadingFillRows(ws, wa, m,
                       ReadingValidPoints(ws, wa, m, 1, 1), interpolator),
          flag |-> TRUE, raised |-> FALSE]

\* ==================================================================== wind
\* a float that is infinite
Inf == [nan |-> FALSE, v |-> 0, inf |-> TRUE]

\* np.isfinite(val)
IsFinite(val) == ~IsNan(val) /\ val # Inf

\* np.asarray_chkfinite on an array of floats: ValueError if an element is
\* NaN or infinite
AsarrayChkfinite(cells) ==
    IF \E k \in 1..Len(cells) : ~IsFinite(cells[k]) THEN "ValueError" ELSE "none"

\* np.arange(start, stop, step) for integers with step > 0
Arange(start, stop, step) ==
    LET n == IF stop > start THEN ((stop - start) + (step - 1)) \div step ELSE 0
    IN  [k \in 1..n |-> Num(start + ((k - 1) * step))]

\* len(set(res)) != len(res)
HasDuplicates(cells) ==
    Cardinality({cells[k] : k \in 1..Len(cells)}) # Len(cells)

\* the values without the repeated ones, in their first order
RECURSIVE Unique(_)
Unique(cells) ==
    IF Len(cells) = 0 THEN <<>>
    ELSE LET front == Unique(SubSeq(cells, 1, Len(cells) - 1))
             last == cells[Len(cells)]
         IN  IF \E k \in 1..Len(front) : front[k] = last THEN front
             ELSE Append(front, last)

\* an array: its shape and its elements in row-major order
Array(shape, cells) == [shape |-> shape, cells |-> cells]

\* the sequences over S of the lengths 0..n
RECURSIVE SeqsUpTo(_, _)
SeqsUpTo(S, n) ==
    IF n = 0 THEN {<<>>}
    ELSE LET shorter == SeqsUpTo(S, n - 1)
         IN  shorter \cup {Append(s, x) : s \in {t \in shorter : Len(t) = n - 1},
                                          x \in S}

RECURSIVE Flatten(_)
Flatten(rows) == IF Len(rows) = 0 THEN <<>> ELSE rows[1] \o Flatten(Tail(rows))

\* what is passed as res: None, a list of floats, a list of lists, a number
\* (an array of no dimension)
Resolutions ==
    {[kind |-> "None"]}
    \cup {[kind |-> "iterable", val |-> Array(<<Len(s)>>, s)] :
            s \in SeqsUpTo({Num(2), Num(4), Nan, Inf}, MaxRes)}
    \cup {[kind |-> "iterable", val |-> Array(<<1, Len(s)>>, s)] :
            s \in {<<>>, <<Num(2), Num(2)>>, <<Num(2), Nan>>}}
    \cup {[kind |-> "number", val |-> Array(<<>>, <<Num(n)>>)] :
            n \in {-2, 0, 5, 20, 400}}

\* rows of wind speed, wind angle, boat speed: the wind from ahead or from
\* astern, where the conversion is exact in floats
FiniteRows ==
    {<<Num(5), Num(0), Num(3)>>, <<Num(3), Num(0), Num(3)>>,
     <<Num(3), Num(180), Num(4)>>, <<Num(3), Num(0), Num(5)>>}

\* rows with an element that is not finite
OtherRows ==
    {<<Nan, Num(0), Num(3)>>, <<Num(5), Nan, Num(3)>>, <<Num(5), Num(0), Nan>>,
     <<Inf, Num(0), Num(3)>>}

\* what is passed as wind: arrays of shape (n, 3) and (n, 2), and arrays of
\* one and of three dimensions
Winds ==
    {Array(<<Len(rows), 3>>, Flatten(rows)) :
        rows \in SeqsUpTo(FiniteRows \cup OtherRows, MaxWindRows) \ {<<>>}}
    \cup {Array(<<1, 2>>, s) : s \in {<<Num(5), Num(0)>>, <<Num(5), Nan>>}}
    \cup {Array(<<3>>, s) : s \in FiniteRows \cup OtherRows}
    \cup {Array(<<1, 3, 1>>, s) : s \in {<<Num(5), Num(0), Num(3)>>}}
    \cup {Array(<<1, 2, 3>>, Flatten(<<r, r>>)) : r \in {<<Num(5), Num(0), Num(3)>>}}

Abs(x) == IF x < 0 THEN 0 - x ELSE x

\* lines 80-99 for one row (ws, wa, bsp) with wa = 0 or wa = 180, where
\* cos(wa) is 1 or -1 and the root is that of a square: the converted
\* speed, the converted angle (0/0 is NaN) and the boat speed; a NaN among
\* the three makes the converted speed and angle NaN
ConvertRow(row, sgn) ==
    IF \E k \in 1..3 : IsNan(row[k])
    THEN <<Nan, Nan, row[3]>>
    ELSE LET ws == row[1].v
             bsp == row[3].v
             cos == IF row[2].v = 0 THEN 1 ELSE -1
             cws == Abs(ws + (sgn * cos * bsp))
             num == (ws * cos) + (sgn * bsp)
             cwa == IF cws = 0 THEN Nan
                    ELSE IF num = cws THEN Num(0) ELSE Num(180)
         IN  <<Num(cws), cwa, row[3]>>

\* np.column_stack((cws, cwa, bsp)) of the rows converted
ConvertRows(w, sgn) ==
    Array(w.shape,
          Flatten([i \in 1..w.shape[1] |->
                      ConvertRow(SubSeq(w.cells, (3 * i) - 2, 3 * i), sgn)]))

NoReturn == [raised |-> "none", val |-> <<>>]

\* ------------------------------------------------------------------ state
VARIABLES
    ws_res,        \* argument: wind speed axis
    wa_res,        \* argument: wind angle axis
    bsps,          \* argument: boat speed matrix, bsps[wa_idx][ws_idx]
    interp,        \* argument: what the interpolator does when queried at a cell
    pc,            \* position in interpolate_missing_values
    valid_points,  \* local valid_points
    has_missing,   \* local has_missing
    filled_bsps,   \* local filled_bsps
    filled_row,    \* local filled_row
    wa_idx,        \* outer loop index (1-based)
    calls,         \* the calls made to interpolator.interpolate, in order
    result,        \* the returned (filled_bsps, interpolation_performed)
    aliased,       \* the returned matrix is the caller's own object
    \* from_csv; its locals ws_res, wa_res and bsps are the variables above
    fmt,                      \* argument: the format tag
    interpolate_missing,      \* argument: the flag
    path_ok,                  \* csv_path names a file that can be read
    file,                     \* the lines of that file
    file_pos,                 \* the line the open file is positioned at
    opened,                   \* the file has been opened
    csv_pc,                   \* position in from_csv
    interpolation_performed,  \* local of _read_extern_format
    pd,                       \* the table from_csv returns
    symmetric_pd,             \* the table pd.symmetrize() returns
    error,                    \* the exception that left from_csv
    \* the functions of wind.py
    called,          \* the function that is called
    res,             \* argument of set_resolution
    speed_or_angle,  \* argument of set_resolution
    wind,            \* argument of the conversions
    sign,            \* argument of convert_wind
    tw,              \* argument of convert_wind
    check_finite,    \* argument _check_finite of convert_wind
    wind_pc,         \* position in the function
    wind_ret,        \* what the function raised or returned
    warned,          \* warnings.warn was called
    \* add_influence and remove_influence of an influence model
    model,           \* the influence model: its class, _wa_shift, _interval_size
    influence_data,  \* argument: the dictionary with "TWS" and "TWA"
    pd_calls,        \* the calls pd(ws, wa) made, in order
    speed,           \* the returned speed or list of speeds
    infl_pc,         \* position in add_influence or remove_influence
    data,            \* argument of remove_influence: the data dictionary
    wind_data        \* what remove_influence raised or returned

filler_locals == <<pc, valid_points, has_missing, filled_bsps, filled_row,
                   wa_idx, calls, result, aliased>>

reader_vars == <<fmt, interpolate_missing, path_ok, file, file_pos, opened,
                 csv_pc, interpolation_performed, pd, symmetric_pd, error>>

wind_vars == <<called, res, speed_or_angle, wind, sign, tw, check_finite,
               wind_pc, wind_ret, warned>>

influence_vars == <<model, influence_data, pd_calls, speed, infl_pc, data,
                    wind_data>>

\* the variables of the other functions, which the filler leaves alone
outside_filler == <<reader_vars, wind_vars, influence_vars>>

\* the variables that from_csv leaves alone, the filler's locals apart
outside_reader == <<wind_vars, influence_vars>>

vars == <<ws_res, wa_res, bsps, interp, filler_locals, outside_filler>>

args == <<ws_res, wa_res, bsps, interp>>

NoResult == [bsps |-> <<>>, flag |-> FALSE, raised |-> FALSE]

\* the interpolator's behaviour: free at the unknown cells, where it can be
\* queried; fixed at the known cells
Interps(m) ==
    {[p \in Positions(m) |-> IF p \in Unknown(m) THEN g[p] ELSE Return(Zero)] :
        g \in [Unknown(m) -> Outcomes]}

\* the wind functions are not running
WindIdle ==
    /\ called = "none"
    /\ res = [kind |-> "None"]
    /\ speed_or_angle = "speed"
    /\ wind = Array(<<0>>, <<>>)
    /\ sign = 1
    /\ tw = FALSE
    /\ check_finite = TRUE
    /\ wind_pc = "idle"
    /\ wind_ret = NoReturn
    /\ warned = FALSE

\* the speeds, angles and correction values of the influence data
WindSpeeds == {6, 8}
WindAngles == {0, 20, 355}
WaShifts == {0, 10, -30}

\* no influence model is in use
InfluenceIdle ==
    /\ model = [cls |-> "none"]
    /\ influence_data = [kind |-> "none"]
    /\ pd_calls = <<>>
    /\ speed = <<>>
    /\ infl_pc = "idle"
    /\ data = [kind |-> "none"]
    /\ wind_data = NoReturn

\* from_csv is not running
ReaderIdle ==
    /\ fmt = "hro"
    /\ interpolate_missing = FALSE
    /\ path_ok = FALSE
    /\ file = <<>>
    /\ file_pos = 1
    /\ opened = FALSE
    /\ csv_pc = "idle"
    /\ interpolation_performed = FALSE
    /\ pd = NoTable
    /\ symmetric_pd = NoTable
    /\ error = "none"

Init ==
    /\ \E nwa \in 1..MaxWa, nws \in 1..MaxWs, g \in Grids :
        /\ ws_res = Axis(nws, g[1])
        /\ wa_res = Axis(nwa, g[2])
        /\ bsps \in Matrices(nwa, nws)
    /\ interp \in Interps(bsps)
    /\ pc = "call"
    /\ valid_points = <<>>
    /\ has_missing = FALSE
    /\ filled_bsps = <<>>
    /\ filled_row = <<>>
    /\ wa_idx = 1
    /\ calls = <<>>
    /\ result = NoResult
    /\ aliased = FALSE
    /\ ReaderIdle
    /\ WindIdle
    /\ InfluenceIdle

\* ---------------------------------------------------------------- actions

\* lines 56-65: collect valid_points, compute has_missing
ScanMatrix ==
    /\ pc = "call"
    /\ valid_points' = ValidPoints(ws_res, wa_res, bsps)
    /\ has_missing' = HasMissingValues(bsps)
    /\ pc' = "scanned"
    /\ UNCHANGED <<args, filled_bsps, filled_row, wa_idx, calls,
                   result, aliased>>
    /\ UNCHANGED outside_filler

\* lines 67-69: return bsps, False
ReturnUnchanged ==
    /\ pc = "scanned"
    /\ Branch(has_missing, valid_points) = "unchanged"
    /\ result' = [bsps |-> bsps, flag |-> FALSE, raised |-> FALSE]
    /\ aliased' = TRUE
    /\ pc' = "done"
    /\ UNCHANGED <<args, valid_points, has_missing, filled_bsps, filled_row,
                   wa_idx, calls>>
    /\ UNCHANGED outside_filler

\* variant: the unknown cells are set to 0.0 in the matrix that was given
ReturnZeroFilledInPlace ==
    /\ pc = "scanned"
    /\ Branch(has_missing, valid_points) = "sparse"
    /\ bsps' = ZeroFill(bsps)
    /\ filled_bsps' = ZeroFill(bsps)
    /\ result' = [bsps |-> ZeroFill(bsps), flag |-> TRUE, raised |-> FALSE]
    /\ aliased' = TRUE
    /\ pc' = "done"
    /\ UNCHANGED <<ws_res, wa_res, interp, valid_points, has_missing,
                   filled_row, wa_idx, calls>>
    /\ UNCHANGED outside_filler

\* lines 71-74: return the zero-filled copy, True
ReturnZeroFilled ==
    /\ pc = "scanned"
    /\ Branch(has_missing, valid_points) = "sparse"
    /\ filled_bsps' = ZeroFill(bsps)
    /\ result' = [bsps |-> ZeroFill(bsps), flag |-> TRUE, raised |-> FALSE]
    /\ pc' = "done"
    /\ UNCHANGED <<args, valid_points, has_missing, filled_row, wa_idx,
                   calls, aliased>>
    /\ UNCHANGED outside_filler

\* lines 76-99: build the point set, enter the fill loop
EnterFillLoop ==
    /\ pc = "scanned"
    /\ Branch(has_missing, valid_points) = "fill"
    /\ filled_bsps' = <<>>
    /\ filled_row' = <<>>
    /\ wa_idx' = 1
    /\ pc' = "loop"
    /\ UNCHANGED <<args, valid_points, has_missing, calls, result, aliased>>
    /\ UNCHANGED outside_filler

\* lines 98-126: one iteration of the outer loop (a whole row)
FillNextRow ==
    /\ pc = "loop"
    /\ wa_idx <= Len(wa_res)
    /\ \E r \in {FillRow(ws_res, wa_res, bsps, valid_points, interp, wa_idx)} :
           /\ calls' = calls \o r.calls
           /\ filled_row' = r.row
           /\ IF r.raised
              THEN /\ pc' = "raised"
                   /\ result' = [bsps |-> <<>>, flag |-> FALSE, raised |-> TRUE]
                   /\ UNCHANGED <<filled_bsps, wa_idx>>
              ELSE /\ filled_bsps' = Append(filled_bsps, r.row)
                   /\ wa_idx' = wa_idx + 1
                   /\ UNCHANGED <<pc, result>>
    /\ UNCHANGED <<args, valid_points, has_missing, aliased>>
    /\ UNCHANGED outside_filler

\* line 128: return filled_bsps, True
ReturnFilled ==
    /\ pc = "loop"
    /\ wa_idx > Len(wa_res)
    /\ result' = [bsps |-> filled_bsps, flag |-> TRUE, raised |-> FALSE]
    /\ pc' = "done"
    /\ UNCHANGED <<args, valid_points, has_missing, filled_bsps, filled_row,
                   wa_idx, calls, aliased>>
    /\ UNCHANGED outside_filler

Next ==
    \/ ScanMatrix
    \/ ReturnUnchanged
    \/ ReturnZeroFilled
    \/ EnterFillLoop
    \/ FillNextRow
    \/ ReturnFilled

Spec == Init /\ [][Next]_vars

\* ================================================================ from_csv
\* interpolate_missing_values is not running
FillerIdle ==
    /\ pc = "idle"
    /\ valid_points = <<>>
    /\ has_missing = FALSE
    /\ filled_bsps = <<>>
    /\ filled_row = <<>>
    /\ wa_idx = 1
    /\ calls = <<>>
    /\ result = NoResult
    /\ aliased = FALSE

HasDegreeSign(f) ==
    \E k \in 1..Len(f) : \E j \in 1..Len(f[k]) :
        \E c \in 1..Len(f[k][j]) : f[k][j][c] = "°"

HasEmptyField(f) ==
    \E k \in 1..Len(f) : \E j \in 1..Len(f[k]) : f[k][j] = <<>>

\* a call from_csv(csv_path, fmt, interpolate_missing, interpolator): any
\* file read in any format, known or not, except that what is read as an
\* array is separated by white space, so that it has no empty field, and
\* has plain numbers on its axes
CsvInit ==
    /\ fmt \in Formats \cup {"xls", "ORC"}
    /\ interpolate_missing \in BOOLEAN
    /\ path_ok \in BOOLEAN
    /\ file \in Files
    /\ ~path_ok => file = <<>>
    /\ fmt = "array" => ~HasDegreeSign(file) /\ ~HasEmptyField(file)
    /\ file_pos = 1
    /\ opened = FALSE
    /\ csv_pc = "from_csv"
    /\ interpolation_performed = FALSE
    /\ pd = NoTable
    /\ symmetric_pd = NoTable
    /\ error = "none"
    /\ ws_res = <<>>
    /\ wa_res = <<>>
    /\ bsps = <<>>
    /\ interp = <<>>
    /\ FillerIdle
    /\ WindIdle
    /\ InfluenceIdle

\* an exception leaves from_csv
RaiseError(e) ==
    /\ error' = e
    /\ csv_pc' = "raised"

\* variant: the format tag is looked at only after the file is read
CheckFormatLate ==
    /\ csv_pc = "from_csv"
    /\ csv_pc' = "open"
    /\ UNCHANGED <<fmt, interpolate_missing, path_ok, file, file_pos, opened,
                   interpolation_performed, pd, symmetric_pd, error>>
    /\ UNCHANGED <<ws_res, wa_res, bsps, interp, filler_locals,
                   outside_reader>>

\* lines 88-89: if fmt not in {...}: raise ValueError
CheckFormat ==
    /\ csv_pc = "from_csv"
    /\ IF fmt \notin Formats
       THEN RaiseError("ValueError")
       ELSE csv_pc' = "open" /\ UNCHANGED error
    /\ UNCHANGED <<fmt, interpolate_missing, path_ok, file, file_pos, opened,
                   interpolation_performed, pd, symmetric_pd>>
    /\ UNCHANGED <<ws_res, wa_res, bsps, interp, filler_locals,
                   outside_reader>>

\* lines 91-95: open the file and go to the reader of the format
OpenFile ==
    /\ csv_pc = "open"
    /\ IF ~path_ok
       THEN RaiseError("OSError") /\ UNCHANGED opened
       ELSE /\ opened' = TRUE
            /\ csv_pc' = IF fmt = "hro" THEN "intern" ELSE "extern"
            /\ UNCHANGED error
    /\ UNCHANGED <<fmt, interpolate_missing, path_ok, file, file_pos,
                   interpolation_performed, pd, symmetric_pd>>
    /\ UNCHANGED <<ws_res, wa_res, bsps, interp, filler_locals,
                   outside_reader>>

\* variant: the flag asked for is put on what the subclass built
ReadInternFormatFlagged ==
    /\ csv_pc = "intern"
    /\ file_pos' = IF file_pos > Len(file) THEN file_pos ELSE file_pos + 1
    /\ LET first_row == Rstrip(Readline(file, file_pos))
       IN  IF first_row \notin {<<cls>> : cls \in Subclasses}
           THEN RaiseError("FileReadingException") /\ UNCHANGED pd
           ELSE /\ pd' = [cls |-> first_row[1],
                          lines |-> SubSeq(file, file_pos', Len(file)),
                          interpolation_performed |-> interpolate_missing]
                /\ csv_pc' = "done"
                /\ UNCHANGED error
    /\ UNCHANGED <<fmt, interpolate_missing, path_ok, file, opened,
                   interpolation_performed, symmetric_pd>>
    /\ UNCHANGED <<ws_res, wa_res, bsps, interp, filler_locals,
                   outside_reader>>

\* lines 98-108: _read_intern_format
ReadInternFormat ==
    /\ csv_pc = "intern"
    /\ file_pos' = IF file_pos > Len(file) THEN file_pos ELSE file_pos + 1
    /\ LET first_row == Rstrip(Readline(file, file_pos))
       IN  IF first_row \notin {<<cls>> : cls \in Subclasses}
           THEN RaiseError("FileReadingException") /\ UNCHANGED pd
           ELSE /\ pd' = FromCsv(first_row[1], file, file_pos')
                /\ csv_pc' = "done"
                /\ UNCHANGED error
    /\ UNCHANGED <<fmt, interpolate_missing, path_ok, file, opened,
                   interpolation_performed, symmetric_pd>>
    /\ UNCHANGED <<ws_res, wa_res, bsps, interp, filler_locals,
                   outside_reader>>

\* lines 112-113: ws_res, wa_res, bsps = _read_from_array(file)
ReadArrayFormat ==
    /\ csv_pc = "extern"
    /\ fmt = "array"
    /\ \E r \in {ReadFromArray(file)} :
        IF r.raised # "none"
        THEN RaiseError(r.raised) /\ UNCHANGED <<ws_res, wa_res, bsps>>
        ELSE /\ ws_res' = r.ws_res
             /\ wa_res' = r.wa_res
             /\ bsps' = r.bsps
             /\ csv_pc' = "read"
             /\ UNCHANGED error
    /\ file_pos' = Len(file) + 1
    /\ UNCHANGED <<fmt, interpolate_missing, path_ok, file, opened,
                   interpolation_performed, pd, symmetric_pd>>
    /\ UNCHANGED <<interp, filler_locals, outside_reader>>

\* lines 140 and 169: ws_res = _read_wind_speeds(csv_reader), in the orc
\* reader and in the opencpn reader, which is the reader of every other tag
ReadHeader ==
    /\ csv_pc = "extern"
    /\ fmt # "array"
    /\ IF file_pos > Len(file)
       THEN RaiseError("StopIteration") /\ UNCHANGED <<ws_res, file_pos>>
       ELSE \E r \in {ReadWindSpeeds(file[file_pos])} :
            /\ file_pos' = file_pos + 1
            /\ IF r.raised # "none"
               THEN RaiseError(r.raised) /\ UNCHANGED ws_res
               ELSE /\ ws_res' = r.val
                    /\ csv_pc' = IF fmt = "orc" THEN "zeros" ELSE "rows"
                    /\ UNCHANGED error
    /\ UNCHANGED <<fmt, interpolate_missing, path_ok, file, opened,
                   interpolation_performed, pd, symmetric_pd>>
    /\ UNCHANGED <<wa_res, bsps, interp, filler_locals, outside_reader>>

\* line 143: next(csv_reader), the line of zeros is skipped
SkipLineOfZeros ==
    /\ csv_pc = "zeros"
    /\ IF file_pos > Len(file)
       THEN RaiseError("StopIteration") /\ UNCHANGED file_pos
       ELSE /\ file_pos' = file_pos + 1
            /\ csv_pc' = "rows"
            /\ UNCHANGED error
    /\ UNCHANGED <<fmt, interpolate_missing, path_ok, file, opened,
                   interpolation_performed, pd, symmetric_pd>>
    /\ UNCHANGED <<ws_res, wa_res, bsps, interp, filler_locals,
                   outside_reader>>

\* lines 158-161: one iteration of `for row in csv_reader`
ReadDataRow ==
    /\ csv_pc = "rows"
    /\ file_pos <= Len(file)
    /\ file_pos' = file_pos + 1
    /\ IF file[file_pos] = <<>>
       THEN UNCHANGED <<wa_res, bsps, csv_pc, error>>
       ELSE \E r \in {ReadRow(file[file_pos])} :
            IF r.raised # "none"
            THEN RaiseError(r.raised) /\ UNCHANGED <<wa_res, bsps>>
            ELSE /\ wa_res' = Append(wa_res, r.wa)
                 /\ bsps' = Append(bsps, r.bsps)
                 /\ UNCHANGED <<csv_pc, error>>
    /\ UNCHANGED <<fmt, interpolate_missing, path_ok, file, opened,
                   interpolation_performed, pd, symmetric_pd>>
    /\ UNCHANGED <<ws_res, interp, filler_locals, outside_reader>>

\* line 163: return wa_res, bsps, and the reader returns the three
ReturnRows ==
    /\ csv_pc = "rows"
    /\ file_pos > Len(file)
    /\ csv_pc' = "read"
    /\ UNCHANGED <<fmt, interpolate_missing, path_ok, file, file_pos, opened,
                   interpolation_performed, pd, symmetric_pd, error>>
    /\ UNCHANGED <<ws_res, wa_res, bsps, interp, filler_locals,
                   outside_reader>>

\* variant: the flag says that the matrix read had a gap
SkipInterpolationReportGaps ==
    /\ csv_pc = "read"
    /\ ~interpolate_missing
    /\ interpolation_performed' = HasMissingValues(bsps)
    /\ csv_pc' = "construct"
    /\ UNCHANGED <<fmt, interpolate_missing, path_ok, file, file_pos, opened,
                   pd, symmetric_pd, error>>
    /\ UNCHANGED <<ws_res, wa_res, bsps, interp, filler_locals,
                   outside_reader>>

\* lines 120-121: interpolation_performed = False, interpolate_missing is
\* false
SkipInterpolation ==
    /\ csv_pc = "read"
    /\ ~interpolate_missing
    /\ interpolation_performed' = FALSE
    /\ csv_pc' = "construct"
    /\ UNCHANGED <<fmt, interpolate_missing, path_ok, file, file_pos, opened,
                   pd, symmetric_pd, error>>
    /\ UNCHANGED <<ws_res, wa_res, bsps, interp, filler_locals,
                   outside_reader>>

\* what the interpolator handed to from_csv can do at the cells of the
\* matrix read: free at the unknown cells
ReaderInterps(ws, wa, m) ==
    LET cells == (1..Len(wa)) \X (1..Len(ws))
        unknown == {p \in cells : IsNan(m[p[1]][p[2]])}
    IN  {[p \in cells |-> IF p \in unknown THEN g[p] ELSE Return(Zero)] :
            g \in [unknown -> Outcomes]}

\* lines 121-122: bsps, interpolation_performed =
\* _interpolate_missing_values(ws_res, wa_res, bsps, interpolator); a row
\* shorter than ws_res ends the scan of the matrix with an IndexError; pc
\* and result say how the filler ended
Interpolate ==
    /\ csv_pc = "read"
    /\ interpolate_missing
    /\ IF \E i \in 1..Len(wa_res) : Len(bsps[i]) < Len(ws_res)
       THEN /\ RaiseError("IndexError")
            /\ pc' = "raised"
            /\ UNCHANGED <<bsps, interp, interpolation_performed, result>>
       ELSE \E interpolator \in ReaderInterps(ws_res, wa_res, bsps) :
            \E r \in {ReadingInterpolateMissingValues(ws_res, wa_res, bsps,
                                                      interpolator)} :
                /\ interp' = interpolator
                /\ result' = r
                /\ pc' = "done"
                /\ bsps' = r.bsps
                /\ interpolation_performed' = r.flag
                /\ csv_pc' = "construct"
                /\ UNCHANGED error
    /\ UNCHANGED <<fmt, interpolate_missing, path_ok, file, file_pos, opened,
                   pd, symmetric_pd>>
    /\ UNCHANGED <<ws_res, wa_res, valid_points, has_missing, filled_bsps,
                   filled_row, wa_idx, calls, aliased, outside_reader>>

\* lines 124-129: pd = PolarDiagramTable(ws_res, wa_res, bsps), the flag is
\* stored on the table, return pd
Construct ==
    /\ csv_pc = "construct"
    /\ \E r \in {PolarDiagramTable(ws_res, wa_res, bsps)} :
        IF r.raised # "none"
        THEN RaiseError(r.raised) /\ UNCHANGED pd
        ELSE /\ pd' = [r.pd EXCEPT !.interpolation_performed =
                                       interpolation_performed]
             /\ csv_pc' = "done"
             /\ UNCHANGED error
    /\ UNCHANGED <<fmt, interpolate_missing, path_ok, file, file_pos, opened,
                   interpolation_performed, symmetric_pd>>
    /\ UNCHANGED <<ws_res, wa_res, bsps, interp, filler_locals,
                   outside_reader>>

\* the caller symmetrizes the table that from_csv returned
SymmetrizeTable ==
    /\ csv_pc = "done"
    /\ pd.cls = "PolarDiagramTable"
    /\ fmt # "hro"
    /\ symmetric_pd' = Symmetrize(pd)
    /\ csv_pc' = "symmetrized"
    /\ UNCHANGED <<fmt, interpolate_missing, path_ok, file, file_pos, opened,
                   interpolation_performed, pd, error>>
    /\ UNCHANGED <<ws_res, wa_res, bsps, interp, filler_locals,
                   outside_reader>>

CsvNext ==
    \/ CheckFormat
    \/ OpenFile
    \/ ReadInternFormat
    \/ ReadArrayFormat
    \/ ReadHeader
    \/ SkipLineOfZeros
    \/ ReadDataRow
    \/ ReturnRows
    \/ SkipInterpolation
    \/ Interpolate
    \/ Construct
    \/ SymmetrizeTable

CsvSpec == CsvInit /\ [][CsvNext]_vars

\* ========================================================= wind: the calls
outside_wind == <<ws_res, wa_res, bsps, interp, filler_locals, reader_vars,
                  influence_vars>>

\* a call of set_resolution(res, speed_or_angle), of apparent_wind_to_true
\* (wind), of true_wind_to_apparent(wind) or of convert_wind(wind, sign, tw,
\* _check_finite); convert_wind computes with an infinite element only in
\* so far as it checks for it
WindInit ==
    /\ called \in {"set_resolution", "apparent_wind_to_true",
                   "true_wind_to_apparent", "convert_wind"}
    /\ IF called = "set_resolution"
       THEN /\ res \in Resolutions
            /\ speed_or_angle \in {"speed", "angle"}
            /\ wind = Array(<<0>>, <<>>)
            /\ wind_pc = "set_resolution"
       ELSE /\ res = [kind |-> "None"]
            /\ speed_or_angle = "speed"
            /\ wind \in Winds
            /\ wind_pc = IF called = "convert_wind" THEN "convert_wind" ELSE "call"
    /\ IF called = "convert_wind"
       THEN /\ sign \in {-1, 1}
            /\ tw \in BOOLEAN
            /\ check_finite \in BOOLEAN
            /\ ~check_finite => \A k \in 1..Len(wind.cells) : wind.cells[k] # Inf
       ELSE /\ sign = 1
            /\ tw = FALSE
            /\ check_finite = TRUE
    /\ wind_ret = NoReturn
    /\ warned = FALSE
    /\ ws_res = <<>>
    /\ wa_res = <<>>
    /\ bsps = <<>>
    /\ interp = <<>>
    /\ FillerIdle
    /\ ReaderIdle
    /\ InfluenceIdle

\* an exception leaves the function
WindRaise(e) ==
    /\ wind_ret' = [raised |-> e, val |-> <<>>]
    /\ wind_pc' = "raised"

\* the function returns val
WindReturn(val) ==
    /\ wind_ret' = [raised |-> "none", val |-> val]
    /\ wind_pc' = "done"

\* lines 39 and 60: return convert_wind(wind, -1 or 1, tw=False,
\* _check_finite=True)
CallConvertWind ==
    /\ wind_pc = "call"
    /\ sign' = IF called = "apparent_wind_to_true" THEN -1 ELSE 1
    /\ tw' = FALSE
    /\ check_finite' = TRUE
    /\ wind_pc' = "convert_wind"
    /\ UNCHANGED <<called, res, speed_or_angle, wind, wind_ret, warned>>
    /\ UNCHANGED outside_wind

\* lines 65-69: np.asarray_chkfinite(wind) or np.asarray(wind)
CheckFiniteWind ==
    /\ wind_pc = "convert_wind"
    /\ IF check_finite /\ AsarrayChkfinite(wind.cells) # "none"
       THEN WindRaise(AsarrayChkfinite(wind.cells))
       ELSE wind_pc' = "shape" /\ UNCHANGED wind_ret
    /\ UNCHANGED <<called, res, speed_or_angle, wind, sign, tw, check_finite,
                   warned>>
    /\ UNCHANGED outside_wind

\* lines 71-75: the dtype of an array of floats is not `object`;
\* wind.shape[1] of an array of one dimension is an IndexError
CheckShapeWind ==
    /\ wind_pc = "shape"
    /\ IF Len(wind.shape) < 2
       THEN WindRaise("IndexError")
       ELSE IF wind.shape[2] # 3 \/ Len(wind.shape) # 2
       THEN WindRaise("WindException")
       ELSE wind_pc' = "tw" /\ UNCHANGED wind_ret
    /\ UNCHANGED <<called, res, speed_or_angle, wind, sign, tw, check_finite,
                   warned>>
    /\ UNCHANGED outside_wind

\* lines 77-78: if tw: return wind
ReturnTrueWind ==
    /\ wind_pc = "tw"
    /\ tw
    /\ WindReturn(wind)
    /\ UNCHANGED <<called, res, speed_or_angle, wind, sign, tw, check_finite,
                   warned>>
    /\ UNCHANGED outside_wind

\* lines 80-99: the conversion
ConvertWind ==
    /\ wind_pc = "tw"
    /\ ~tw
    /\ WindReturn(ConvertRows(wind, sign))
    /\ UNCHANGED <<called, res, speed_or_angle, wind, sign, tw, check_finite,
                   warned>>
    /\ UNCHANGED outside_wind

\* lines 103-106: the default resolution for res = None
DefaultResolution ==
    /\ wind_pc = "set_resolution"
    /\ res.kind = "None"
    /\ \E a \in {IF speed_or_angle = "speed" THEN Arange(2, 42, 2)
                 ELSE Arange(0, 360, 5)} :
           WindReturn(Array(<<Len(a)>>, a))
    /\ UNCHANGED <<called, res, speed_or_angle, wind, sign, tw, check_finite,
                   warned>>
    /\ UNCHANGED outside_wind

\* lines 108-110: res = np.asarray_chkfinite(res) for an iterable
CheckFiniteResolution ==
    /\ wind_pc = "set_resolution"
    /\ res.kind = "iterable"
    /\ IF AsarrayChkfinite(res.val.cells) # "none"
       THEN WindRaise(AsarrayChkfinite(res.val.cells))
       ELSE wind_pc' = "res_shape" /\ UNCHANGED wind_ret
    /\ UNCHANGED <<called, res, speed_or_angle, wind, sign, tw, check_finite,
                   warned>>
    /\ UNCHANGED outside_wind

\* lines 112-116: the dtype of an array of floats is not `object`; an empty
\* array and an array that is not of one dimension are rejected
CheckShapeResolution ==
    /\ wind_pc = "res_shape"
    /\ IF Len(res.val.cells) = 0 \/ Len(res.val.shape) # 1
       THEN WindRaise("WindException")
       ELSE wind_pc' = "res_unique" /\ UNCHANGED wind_ret
    /\ UNCHANGED <<called, res, speed_or_angle, wind, sign, tw, check_finite,
                   warned>>
    /\ UNCHANGED outside_wind

\* variant: the repeated values are dropped from what is returned
ReturnResolutionUnique ==
    /\ wind_pc = "res_unique"
    /\ warned' = HasDuplicates(res.val.cells)
    /\ WindReturn(Array(<<Len(Unique(res.val.cells))>>, Unique(res.val.cells)))
    /\ UNCHANGED <<called, res, speed_or_angle, wind, sign, tw, check_finite>>
    /\ UNCHANGED outside_wind

\* lines 118-124: a warning if res has a repeated value, then return res
ReturnResolution ==
    /\ wind_pc = "res_unique"
    /\ warned' = HasDuplicates(res.val.cells)
    /\ WindReturn(res.val)
    /\ UNCHANGED <<called, res, speed_or_angle, wind, sign, tw, check_finite>>
    /\ UNCHANGED outside_wind

\* lines 126-129: a number as res, the step of the resolution
NumberResolution ==
    /\ wind_pc = "set_resolution"
    /\ res.kind = "number"
    /\ IF res.val.cells[1].v <= 0
       THEN WindRaise("WindException")
       ELSE \E a \in {Arange(res.val.cells[1].v,
                             IF speed_or_angle = "speed" THEN 40 ELSE 360,
                             res.val.cells[1].v)} :
                WindReturn(Array(<<Len(a)>>, a))
    /\ UNCHANGED <<called, res, speed_or_angle, wind, sign, tw, check_finite,
                   warned>>
    /\ UNCHANGED outside_wind

WindNext ==
    \/ CallConvertWind
    \/ CheckFiniteWind
    \/ CheckShapeWind
    \/ ReturnTrueWind
    \/ ConvertWind
    \/ DefaultResolution
    \/ CheckFiniteResolution
    \/ CheckShapeResolution
    \/ ReturnResolution
    \/ NumberResolution

WindSpec == WindInit /\ [][WindNext]_vars

\* ======================================================== influence models
\* the polar diagram called with a wind speed and a wind angle: the boat
\* speed is whatever the diagram gives there
PdCall(ws, wa) == [ws |-> ws, wa |-> wa]

\* zip(influence_data["TWS"], influence_data["TWA"])
Zip(s, t) ==
    [k \in 1..(IF Len(s) < Len(t) THEN Len(s) ELSE Len(t)) |-> <<s[k], t[k]>>]

\* what is passed as influence_data: single values, or lists or arrays of
\* the same length
InfluenceData ==
    {[kind |-> "value", TWS |-> s, TWA |-> a] :
        s \in WindSpeeds, a \in WindAngles}
    \cup {[kind |-> k, TWS |-> [i \in 1..Len(p) |-> p[i][1]],
                       TWA |-> [i \in 1..Len(p) |-> p[i][2]]] :
            k \in {"list", "ndarray"},
            p \in SeqsUpTo(WindSpeeds \X WindAngles, MaxData)}

\* the influence models: IdentityInfluenceModel() and
\* WindAngleCorrectingInfluenceModel(interval_size, wa_shift)
Models ==
    {[cls |-> "IdentityInfluenceModel"]}
    \cup {[cls |-> "WindAngleCorrectingInfluenceModel",
           wa_shift |-> s, interval_size |-> 30] : s \in WaShifts}

\* the keys a data dictionary can have
DataKeys == {"TWS", "TWA", "AWS", "AWA", "BSP", "SOG"}

\* the column written under a key, for up to three data points; the
\* apparent wind comes from ahead or from astern
Column(key) ==
    CASE key = "TWS" -> <<6, 8, 6>>
      [] key = "TWA" -> <<20, 355, 0>>
      [] key = "AWS" -> <<5, 3, 3>>
      [] key = "AWA" -> <<0, 180, 0>>
      [] key = "BSP" -> <<3, 4, 3>>
      [] key = "SOG" -> <<5, 2, 4>>

\* what is passed as data: a dictionary of single values or of lists of the
\* same length, with any of the keys
Datas ==
    {[kind |-> "value", n |-> 1, dict |-> [k \in keys |-> Column(k)[1]]] :
        keys \in SUBSET DataKeys}
    \cup {[kind |-> "list", n |-> n,
           dict |-> [k \in keys |-> SubSeq(Column(k), 1, n)]] :
            keys \in SUBSET DataKeys, n \in 0..MaxData}

NoData == [kind |-> "none"]

\* _utils.data_dict_to_numpy(data, keys): np.column_stack of the columns
\* data[key], a single value being a column of one element
DataDictToNumpy(d, keys) ==
    IF \E k \in 1..Len(keys) : keys[k] \notin DOMAIN d.dict
    THEN [raised |-> "KeyError", val |-> <<>>]
    ELSE LET column(k) == IF d.kind = "list" THEN d.dict[keys[k]]
                          ELSE <<d.dict[keys[k]]>>
         IN  [raised |-> "none",
              val |-> Array(<<d.n, Len(keys)>>,
                            Flatten([i \in 1..d.n |->
                                [k \in 1..Len(keys) |-> Num(column(k)[i])]]))]

\* convert_apparent_wind_to_true(apparent_data), which is
\* convert_wind(apparent_data, -1, tw=False, _check_finite=True) for an
\* array of finite numbers of shape (n, 3)
ConvertApparentWindToTrue(w) == ConvertRows(w, -1)

\* _get_true_wind_data(data)
GetTrueWindData(d) ==
    LET speed_key == IF "BSP" \in DOMAIN d.dict THEN "BSP" ELSE "SOG"
    IN  IF {"AWA", "AWS"} \subseteq DOMAIN d.dict
        THEN LET apparent_data == DataDictToNumpy(d, <<"AWS", "AWA", speed_key>>)
             IN  IF apparent_data.raised # "none" THEN apparent_data
                 ELSE [raised |-> "none",
                       val |-> ConvertApparentWindToTrue(apparent_data.val)]
        ELSE IF {"TWA", "TWS"} \subseteq DOMAIN d.dict
        THEN IF d.kind = "list"
             THEN DataDictToNumpy(d, <<"TWS", "TWA", speed_key>>)
             ELSE IF speed_key \notin DOMAIN d.dict
             THEN [raised |-> "KeyError", val |-> <<>>]
             ELSE [raised |-> "none",
                   val |-> Array(<<3>>, <<Num(d.dict["TWS"]), Num(d.dict["TWA"]),
                                          Num(d.dict[speed_key])>>)]
        ELSE [raised |-> "InfluenceException", val |-> <<>>]

\* wind_data[:, 1] = (wa - self._wa_shift)%360 on an array of two
\* dimensions: the second column shifted, NaN staying NaN
ShiftAngles(w, wa_shift) ==
    Array(w.shape,
          [k \in 1..Len(w.cells) |->
              IF k % w.shape[2] = 2 % w.shape[2] /\ ~IsNan(w.cells[k])
              THEN Num((w.cells[k].v - wa_shift) % 360)
              ELSE w.cells[k]])

outside_influence == <<ws_res, wa_res, bsps, interp, filler_locals,
                       reader_vars, wind_vars>>

\* a call model.add_influence(pd, influence_data) or
\* model.remove_influence(data) on an influence model
InfluenceInit ==
    /\ model \in Models
    /\ infl_pc \in {"add_influence", "remove_influence"}
    /\ IF infl_pc = "add_influence"
       THEN influence_data \in InfluenceData /\ data = NoData
       ELSE influence_data = [kind |-> "none"] /\ data \in Datas
    /\ pd_calls = <<>>
    /\ speed = <<>>
    /\ wind_data = NoReturn
    /\ ws_res = <<>>
    /\ wa_res = <<>>
    /\ bsps = <<>>
    /\ interp = <<>>
    /\ FillerIdle
    /\ ReaderIdle
    /\ WindIdle

\* variant: the list branch stops after the first pair
IdentityAddInfluenceFirstPair ==
    /\ infl_pc = "add_influence"
    /\ model.cls = "IdentityInfluenceModel"
    /\ influence_data.kind = "list"
    /\ \E evaluated \in {[k \in 1..(IF Len(influence_data.TWS) = 0 THEN 0 ELSE 1) |->
                            PdCall(influence_data.TWS[k], influence_data.TWA[k])]} :
        /\ pd_calls' = evaluated
        /\ speed' = [kind |-> "list", val |-> evaluated]
    /\ infl_pc' = "done"
    /\ UNCHANGED <<model, influence_data, data, wind_data>>
    /\ UNCHANGED outside_influence

\* lines 133-135 and 139: the list branch of
\* IdentityInfluenceModel.add_influence
IdentityAddInfluenceToList ==
    /\ infl_pc = "add_influence"
    /\ model.cls = "IdentityInfluenceModel"
    /\ influence_data.kind = "list"
    /\ \E evaluated \in {[k \in 1..Len(Zip(influence_data.TWS, influence_data.TWA)) |->
                            PdCall(Zip(influence_data.TWS, influence_data.TWA)[k][1],
                                   Zip(influence_data.TWS, influence_data.TWA)[k][2])]} :
        /\ pd_calls' = evaluated
        /\ speed' = [kind |-> "list", val |-> evaluated]
    /\ infl_pc' = "done"
    /\ UNCHANGED <<model, influence_data, data, wind_data>>
    /\ UNCHANGED outside_influence

\* lines 136-139: the other branch, taken for whatever is not a list
IdentityAddInfluenceToValue ==
    /\ infl_pc = "add_influence"
    /\ model.cls = "IdentityInfluenceModel"
    /\ influence_data.kind # "list"
    /\ pd_calls' = <<PdCall(influence_data.TWS, influence_data.TWA)>>
    /\ speed' = [kind |-> "value",
                 val |-> PdCall(influence_data.TWS, influence_data.TWA)]
    /\ infl_pc' = "done"
    /\ UNCHANGED <<model, influence_data, data, wind_data>>
    /\ UNCHANGED outside_influence

\* lines 194-196 and 200: the list branch of
\* WindAngleCorrectingInfluenceModel.add_influence
AddInfluenceToList ==
    /\ infl_pc = "add_influence"
    /\ model.cls = "WindAngleCorrectingInfluenceModel"
    /\ influence_data.kind \in {"list", "ndarray"}
    /\ \E evaluated \in {[k \in 1..Len(Zip(influence_data.TWS, influence_data.TWA)) |->
                            PdCall(Zip(influence_data.TWS, influence_data.TWA)[k][1],
                                   (Zip(influence_data.TWS, influence_data.TWA)[k][2]
                                        + model.wa_shift) % 360)]} :
        /\ pd_calls' = evaluated
        /\ speed' = [kind |-> "list", val |-> evaluated]
    /\ infl_pc' = "done"
    /\ UNCHANGED <<model, influence_data, data, wind_data>>
    /\ UNCHANGED outside_influence

\* lines 197-200: the other branch
AddInfluenceToValue ==
    /\ infl_pc = "add_influence"
    /\ model.cls = "WindAngleCorrectingInfluenceModel"
    /\ influence_data.kind \notin {"list", "ndarray"}
    /\ pd_calls' = <<PdCall(influence_data.TWS, influence_data.TWA)>>
    /\ speed' = [kind |-> "value",
                 val |-> PdCall(influence_data.TWS, influence_data.TWA)]
    /\ infl_pc' = "done"
    /\ UNCHANGED <<model, influence_data, data, wind_data>>
    /\ UNCHANGED outside_influence

\* line 106: IdentityInfluenceModel.remove_influence
IdentityRemoveInfluence ==
    /\ infl_pc = "remove_influence"
    /\ model.cls = "IdentityInfluenceModel"
    /\ wind_data' = GetTrueWindData(data)
    /\ infl_pc' = IF GetTrueWindData(data).raised = "none" THEN "done"
                  ELSE "raised"
    /\ UNCHANGED <<model, influence_data, data, pd_calls, speed>>
    /\ UNCHANGED outside_influence

\* lines 180-183: WindAngleCorrectingInfluenceModel.remove_influence;
\* wind_data[:, 1] of an array of one dimension is an IndexError
RemoveInfluence ==
    /\ infl_pc = "remove_influence"
    /\ model.cls = "WindAngleCorrectingInfluenceModel"
    /\ \E got \in {GetTrueWindData(data)} :
        IF got.raised # "none"
        THEN wind_data' = got /\ infl_pc' = "raised"
        ELSE IF Len(got.val.shape) < 2
        THEN /\ wind_data' = [raised |-> "IndexError", val |-> <<>>]
             /\ infl_pc' = "raised"
        ELSE /\ wind_data' = [raised |-> "none",
                              val |-> ShiftAngles(got.val, model.wa_shift)]
             /\ infl_pc' = "done"
    /\ UNCHANGED <<model, influence_data, data, pd_calls, speed>>
    /\ UNCHANGED outside_influence

InfluenceNext ==
    \/ IdentityAddInfluenceToList
    \/ IdentityAddInfluenceToValue
    \/ AddInfluenceToList
    \/ AddInfluenceToValue
    \/ IdentityRemoveInfluence
    \/ RemoveInfluence

InfluenceSpec == InfluenceInit /\ [][InfluenceNext]_vars

\* ------------------------------------------------- vocabulary of the claims
Returned == pc = "done"
At(m, p) == m[p[1]][p[2]]

\* a >= b on floats: false if either is NaN
FloatGe(a, b) == ~IsNan(a) /\ ~IsNan(b) /\ a.v >= b.v

\* the two matrices have the same number of rows and the same row lengths
SameShape(m1, m2) ==
    /\ Len(m1) = Len(m2)
    /\ \A i \in 1..Len(m1) : Len(m1[i]) = Len(m2[i])

\* squared Euclidean distance between the (ws, wa) coordinates of two cells
Dist2(p, q) ==
    LET dws == ws_res[p[2]] - ws_res[q[2]]
        dwa == wa_res[p[1]] - wa_res[q[1]]
    IN  (dws * dws) + (dwa * dwa)

\* the known cells within Euclidean distance 2.0 of cell p
Nearby(p) == {q \in Known(bsps) : Dist2(p, q) <= 4}

\* the unknown cells of a table with at least 3 known cells that have a known
\* cell within distance 2.0
InRange == {p \in Unknown(bsps) : Cardinality(Known(bsps)) >= 3 /\ Nearby(p) # {}}

\* the cells for which interpolator.interpolate was called
Queried == {calls[k].cell : k \in 1..Len(calls)}

\* the unknown cells filled without asking the interpolator: the zero-fill
\* policies for a sparse table and for an empty neighbourhood
PolicyZero == Unknown(bsps) \ Queried

\* the state machine returns what the function computes
ResultIsFunctionOfArgs ==
    pc \in {"done", "raised"} =>
        result = InterpolateMissingValues(ws_res, wa_res, bsps, interp)

\* what a queried cell is filled with: 0 on a raise, on NaN and on a negative
\* value, else the interpolated value
Clamped(o) ==
    IF o.raised \/ o.val.nan \/ o.val.v < 0 THEN Num(0) ELSE o.val

\* C1: every cell that is known (not NaN) on input has exactly the same
\* value at the same position of the returned matrix, in every branch.
C1_KnownValuesPreserved ==
    Returned =>
        /\ SameShape(result.bsps, bsps)
        /\ \A p \in Known(bsps) : At(result.bsps, p) = At(bsps, p)

\* C1 witness: a fill-loop return with known cells, one of them negative,
\* and an unknown cell whose interpolation raised.
C1_Witness ==
    /\ Returned
    /\ \E p \in Queried : interp[p].raised
    /\ \E q \in Known(bsps) : At(bsps, q) = Num(-1) /\ At(result.bsps, q) = Num(-1)

\* C2: no cell of the returned matrix is NaN, whatever the interpolator
\* does (negative value, NaN, raise).
C2_NoUnknownInResult ==
    Returned =>
        /\ SameShape(result.bsps, bsps)
        /\ \A p \in Positions(bsps) : ~IsNan(At(result.bsps, p))

\* C2 witness: the interpolator returned NaN for a queried cell.
C2_Witness ==
    /\ Returned
    /\ \E p \in Queried :
        /\ interp[p] = Return(Nan)
            /\ At(result.bsps, p) = Num(0)

\* C3: a matrix with no unknown cell, of any size, comes back exactly as
\* given, with the flag False.
C3_Passthrough ==
    (Returned /\ Unknown(bsps) = {}) =>
        /\ result.bsps = bsps
        /\ result.flag = FALSE
        /\ aliased

\* C3 witness: a passthrough of a table with fewer than 3 cells.
C3_Witness ==
    /\ Returned
    /\ Unknown(bsps) = {}
    /\ Cardinality(Positions(bsps)) < 3
    /\ result.bsps = bsps

\* C4: the returned flag is True iff the input has at least one unknown
\* cell, also when every unknown cell was only zero-filled.
C4_FlagCorrect ==
    Returned => (result.flag <=> Unknown(bsps) # {})

\* C4 witness: flag True although every unknown cell was zero-filled, one
\* by an interpolator failure and one by an empty neighbourhood.
C4_Witness ==
    /\ Returned
    /\ result.flag
    /\ \E p \in Queried : interp[p].raised
    /\ \E p \in Unknown(bsps) : Cardinality(Known(bsps)) >= 3 /\ Nearby(p) = {}
    /\ \A p \in Unknown(bsps) : At(result.bsps, p) = Num(0)

\* C5 as stated: every cell of the returned matrix is >= 0, for any input
\* matrix.
C5_AllCellsNonNegative ==
    Returned => \A p \in Positions(bsps) : FloatGe(At(result.bsps, p), Num(0))

\* C5 amended: every cell that was unknown on input is >= 0 in the returned
\* matrix; so the whole returned matrix is >= 0 whenever every known cell
\* of the input is.
C5_FilledCellsNonNegative ==
    Returned =>
        /\ \A p \in Unknown(bsps) : FloatGe(At(result.bsps, p), Num(0))
        /\ (\A q \in Known(bsps) : At(bsps, q).v >= 0) =>
               \A p \in Positions(bsps) : FloatGe(At(result.bsps, p), Num(0))

\* C5 witness: known cells all >= 0, and the interpolator returned a
\* negative value for a queried cell, which was clamped to 0.
C5_Witness ==
    /\ Returned
    /\ \A q \in Known(bsps) : At(bsps, q).v >= 0
    /\ \E p \in Queried : interp[p] = Return(Num(-2)) /\ At(result.bsps, p) = Num(0)

\* C6: with at least one unknown cell and fewer than 3 known cells, every
\* unknown cell is exactly 0 in the returned matrix and the flag is True; a
\* normal return.
C6_SparsityFallback ==
    (pc \in {"done", "raised"} /\ Unknown(bsps) # {} /\ Cardinality(Known(bsps)) < 3) =>
        /\ pc = "done"
        /\ ~result.raised
        /\ result.flag
        /\ SameShape(result.bsps, bsps)
        /\ \A p \in Unknown(bsps) : At(result.bsps, p) = Num(0)

\* C6 witness: exactly 2 known cells, and an unknown cell with a known
\* neighbour in range that is zero-filled all the same.
C6_Witness ==
    /\ Returned
    /\ Cardinality(Known(bsps)) = 2
    /\ \E p \in Unknown(bsps) :
        /\ Nearby(p) # {}
        /\ interp[p] = Return(Num(3))
        /\ At(result.bsps, p) = Num(0)

\* C7: an unknown cell with no known point within distance 2.0 is filled
\* with exactly 0, and the other unknown cells are still filled normally.
C7_IsolatedGap ==
    Returned =>
        /\ SameShape(result.bsps, bsps)
        /\ \A p \in Unknown(bsps) :
            Nearby(p) = {} =>
                /\ At(result.bsps, p) = Num(0)
                /\ \A q \in InRange : At(result.bsps, q) = Clamped(interp[q])

\* C7 witness: one isolated unknown cell filled with 0 next to an unknown
\* cell that received the interpolated value.
C7_Witness ==
    /\ Returned
    /\ \E p \in Unknown(bsps), q \in InRange :
        /\ Nearby(p) = {}
        /\ At(result.bsps, p) = Num(0)
        /\ At(result.bsps, q) = Num(3)

\* C8: if the interpolator raises for an unknown cell, that cell is 0, no
\* exception leaves the function, and every other cell has the value it has
\* when the interpolator returns a value for that cell instead.
C8_FailureIsolated ==
    /\ pc # "raised"
    /\ Returned =>
        \A p \in Queried :
            interp[p].raised =>
                /\ ~result.raised
                /\ At(result.bsps, p) = Num(0)
                /\ \A val \in InterpVals :
                    LET other == InterpolateMissingValues(ws_res, wa_res, bsps,
                                     [interp EXCEPT ![p] = Return(val)])
                    IN  /\ ~other.raised
                        /\ SameShape(result.bsps, other.bsps)
                        /\ \A q \in Positions(bsps) \ {p} :
                               At(result.bsps, q) = At(other.bsps, q)

\* C8 witness: the interpolator raised for one queried cell, and another
\* queried cell of the same table holds its interpolated value.
C8_Witness ==
    /\ Returned
    /\ \E p \in Queried, q \in Queried :
        /\ p # q
        /\ interp[p].raised
        /\ At(result.bsps, p) = Num(0)
        /\ interp[q] = Return(Num(3))
        /\ At(result.bsps, q) = Num(3)

\* the interpolator that gives the same outcome o wherever it is asked
Constant(o) == [p \in Positions(bsps) |-> o]

\* C9: applying the filler to a matrix it returned gives back that matrix
\* and the flag False, whatever interpolator is passed the second time.
C9_Idempotent ==
    Returned =>
        \A o \in Outcomes :
            InterpolateMissingValues(ws_res, wa_res, result.bsps, Constant(o))
                = [bsps |-> result.bsps, flag |-> FALSE, raised |-> FALSE]

\* C9 witness: the first application filled interpolated, failed and
\* isolated cells.
C9_Witness ==
    /\ Returned
    /\ result.flag
    /\ result.bsps # bsps
    /\ \E p \in Queried : At(result.bsps, p) = Num(3)
    /\ \E p \in Unknown(bsps) : Cardinality(Known(bsps)) >= 3 /\ Nearby(p) = {}

\* C10: with the same axes and matrix, another interpolator gives the same
\* flag, the same dimensions, the same known cells and the same
\* policy-zero-filled cells; stated against the interpolator that always
\* returns 3, so any two interpolators agree with each other.
C10_OnlyFilledValuesDepend ==
    Returned =>
        LET ref == InterpolateMissingValues(ws_res, wa_res, bsps,
                       Constant(Return(Num(3))))
        IN  /\ ref.raised = result.raised
            /\ ref.flag = result.flag
            /\ SameShape(ref.bsps, result.bsps)
            /\ \A p \in Known(bsps) : At(ref.bsps, p) = At(result.bsps, p)
            /\ \A p \in PolicyZero : At(ref.bsps, p) = At(result.bsps, p)

\* C10 witness: the interpolator of the run raises at one queried cell and
\* returns a negative value at another, so both cells differ from the run
\* with the interpolator that always returns 3.
C10_Witness ==
    /\ Returned
    /\ \E p \in Queried, q \in Queried :
        /\ interp[p].raised
        /\ interp[q] = Return(Num(-2))
        /\ At(result.bsps, p) = Num(0)
        /\ At(result.bsps, q) = Num(0)

\* ----------------------------------------- vocabulary of the from_csv claims
\* from_csv returned a table
Finished == csv_pc \in {"done", "symmetrized"}

\* the formats of the table files
Extern == fmt \in {"array", "opencpn", "orc"}

\* the integers the files' numbers are written from
Written == -1..99

\* the field is the text of the number n
Denotes(field, n) == n \in Written /\ Str(n) = field

\* the lines of the file after the header (in the orc format after the line
\* of zeros as well) that are not blank
DataLines ==
    SelectSeq(SubSeq(file, IF fmt = "orc" THEN 3 ELSE 2, Len(file)),
              LAMBDA row : row # <<>>)

\* the field is one of a missing cell: an empty field, or in an array file
\* a text that is no number
MissingField(field) ==
    IF fmt = "array" THEN ~\E n \in Written : Denotes(field, n)
    ELSE field = <<>>

\* the places <<i, j>> of the missing cells of the file: data line i, boat
\* speed j
FileMissing ==
    {p \in (1..Len(DataLines)) \X (1..(MaxCols + 1)) :
        /\ p[2] + 1 <= Len(DataLines[p[1]])
        /\ MissingField(DataLines[p[1]][p[2] + 1])}

\* the matrix does not have the dimensions of the axes
Mismatch(ws, wa, m) ==
    \/ Len(m) # Len(wa)
    \/ \E i \in 1..Len(m) : Len(m[i]) # Len(ws)

\* the first line of the file is the name of a subclass, with nothing
\* before it and at most blanks after it
Tagged ==
    /\ Len(file) >= 1
    /\ Len(file[1]) = 1
    /\ \E cls \in Subclasses, k \in 0..1 :
           file[1][1] = <<cls>> \o [i \in 1..k |-> " "]

\* C11: from_csv in the array, orc or opencpn format reports
\* interpolation_performed = False when interpolate_missing is False,
\* whether or not the file has missing cells, and the filler's flag when it
\* is True: True iff the file has at least one missing cell.
C11_FlagReported ==
    (Finished /\ Extern) =>
        (pd.interpolation_performed <=>
            (interpolate_missing /\ FileMissing # {}))

\* C11 witness: both sides of the claim are seen in files with a missing
\* cell: here the table of an orc file read with interpolate_missing, flag
\* True.
C11_Witness ==
    /\ csv_pc = "done"
    /\ fmt = "orc"
    /\ interpolate_missing
    /\ FileMissing # {}
    /\ pd.interpolation_performed

\* C12: with interpolate_missing = False the table of a file with missing
\* cells is dense: every missing cell holds 0 and no cell of the table's
\* matrix is NaN.
C12_DenseWithoutInterpolation ==
    (Finished /\ Extern /\ ~interpolate_missing) =>
        /\ \A i \in 1..Len(pd.bsps) : \A j \in 1..Len(pd.bsps[i]) :
               ~IsNan(pd.bsps[i][j])
        /\ \A p \in FileMissing :
               /\ p[1] <= Len(pd.bsps)
               /\ p[2] <= Len(pd.bsps[p[1]])
               /\ pd.bsps[p[1]][p[2]] = Zero

\* C12 witness: a table read without interpolation from an opencpn file
\* with an empty field, which holds 0 there.
C12_Witness ==
    /\ csv_pc = "done"
    /\ fmt = "opencpn"
    /\ ~interpolate_missing
    /\ \E p \in FileMissing : pd.bsps[p[1]][p[2]] = Zero

\* C13: symmetrizing a table returns a new table whose interpolation flag
\* is that of the source table and whose symmetrization flag is true; the
\* source table keeps its flags.
C13_SymmetrizationPreservesFlags ==
    csv_pc = "symmetrized" =>
        /\ symmetric_pd.interpolation_performed = pd.interpolation_performed
        /\ symmetric_pd.symmetrization_performed
        /\ ~pd.symmetrization_performed

\* C13 witness: a table with interpolation_performed true was symmetrized
\* and the new table has more rows than the source.
C13_Witness ==
    /\ csv_pc = "symmetrized"
    /\ pd.interpolation_performed
    /\ symmetric_pd.interpolation_performed
    /\ Len(symmetric_pd.bsps) > Len(pd.bsps)

\* C14: the orc and opencpn readers return one matrix row per data line
\* that is not blank, in file order; row i belongs to the angle written in
\* that line, column j to the speed written in field j of the header; an
\* empty field is NaN at exactly its place and every other field has the
\* value written; there are always as many matrix rows as angles.
C14_ReaderContract ==
    (fmt \in {"orc", "opencpn"}) =>
        /\ Len(bsps) = Len(wa_res)
        /\ csv_pc = "read" =>
            /\ Len(ws_res) = Len(file[1]) - 1
            /\ \A j \in 1..Len(ws_res) : Denotes(file[1][j + 1], ws_res[j])
            /\ Len(bsps) = Len(DataLines)
            /\ \A i \in 1..Len(bsps) :
                /\ \/ Denotes(DataLines[i][1], wa_res[i])
                   \/ Denotes(SubSeq(DataLines[i][1], 1,
                                     Len(DataLines[i][1]) - 2), wa_res[i])
                /\ Len(bsps[i]) = Len(DataLines[i]) - 1
                /\ \A j \in 1..Len(bsps[i]) :
                    IF DataLines[i][j + 1] = <<>>
                    THEN IsNan(bsps[i][j])
                    ELSE /\ ~IsNan(bsps[i][j])
                         /\ Denotes(DataLines[i][j + 1], bsps[i][j].v)

\* C14 witness: the orc reader returned from a file with a blank line
\* among two data lines and an empty field, NaN at its place.
C14_Witness ==
    /\ csv_pc = "read"
    /\ fmt = "orc"
    /\ Len(bsps) = 2
    /\ Len(file) = 5
    /\ \E p \in FileMissing : IsNan(bsps[p[1]][p[2]])

\* C15: no table is built from a matrix whose dimensions are not
\* (len(angle axis), len(speed axis)): the construction raises and from_csv
\* returns nothing.
C15_ConstructionRejection ==
    Extern =>
        /\ Finished => ~Mismatch(ws_res, wa_res, bsps)
        /\ (csv_pc = "raised" /\ error = "ConstructionError") =>
               /\ Mismatch(ws_res, wa_res, bsps)
               /\ pd = NoTable

\* C15 witness: the construction raised for a matrix with two rows, one of
\* them a field longer than the speed axis.
C15_Witness ==
    /\ csv_pc = "raised"
    /\ error = "ConstructionError"
    /\ Len(bsps) = 2
    /\ Len(wa_res) = 2
    /\ \E i \in 1..2 : Len(bsps[i]) = Len(ws_res) + 1
    /\ pd = NoTable

\* C16: with a format tag outside {array, hro, opencpn, orc} from_csv
\* raises before the file is opened or read and returns no table.
C16_UnknownFormat ==
    fmt \notin Formats =>
        /\ csv_pc \in {"from_csv", "raised"}
        /\ csv_pc = "raised" => error = "ValueError"
        /\ ~opened
        /\ file_pos = 1
        /\ pd = NoTable

\* C16 witness: the error for an unknown tag with a file that could have
\* been read.
C16_Witness ==
    /\ csv_pc = "raised"
    /\ fmt \notin Formats
    /\ path_ok
    /\ Len(file) > 1
    /\ error = "ValueError"

\* C17: in the hro format the first line without its trailing white space
\* is the type tag: if it names no subclass of PolarDiagram,
\* FileReadingException is raised and nothing is built; otherwise the rest
\* of the file goes to the __from_csv__ of exactly that subclass.
C17_HroTypeTag ==
    fmt = "hro" =>
        /\ csv_pc = "done" =>
            /\ Tagged
            /\ pd.cls = file[1][1][1]
            /\ pd.lines = SubSeq(file, 2, Len(file))
        /\ (csv_pc = "raised" /\ opened) =>
            /\ ~Tagged
            /\ error = "FileReadingException"
            /\ pd = NoTable

\* C17 witness: a tag followed by a blank is accepted and the rest of the
\* file handed on.
C17_Witness ==
    /\ csv_pc = "done"
    /\ fmt = "hro"
    /\ file[1][1] = <<"PolarDiagramTable", " ">>
    /\ pd.cls = "PolarDiagramTable"
    /\ Len(pd.lines) = 1

\* ------------------------------------------- vocabulary of the wind claims
WindEnded == wind_pc \in {"done", "raised"}

\* the resolution passed is a list of numbers with a repeated value
RepeatedValue ==
    /\ called = "set_resolution"
    /\ res.kind = "iterable"
    /\ \E i, j \in 1..Len(res.val.cells) :
           i < j /\ res.val.cells[i] = res.val.cells[j]

\* the resolution passed is a list, not empty, of finite numbers
FiniteList ==
    /\ called = "set_resolution"
    /\ res.kind = "iterable"
    /\ Len(res.val.shape) = 1
    /\ Len(res.val.cells) > 0
    /\ \A k \in 1..Len(res.val.cells) :
           res.val.cells[k] \notin {Nan, Inf}

\* C18 as claimed: an axis with a repeated value is rejected by raising and
\* no axis is returned.
C18_DuplicatesRejected ==
    (RepeatedValue /\ WindEnded) =>
        /\ wind_pc = "raised"
        /\ wind_ret.val = <<>>

\* C18 amended: an axis with a repeated value is accepted: for a list of
\* finite numbers set_resolution raises nothing and returns the values as
\* given, the repeated ones included, with a warning exactly when a value is
\* repeated.
C18_DuplicatesWarned ==
    (FiniteList /\ WindEnded) =>
        /\ wind_pc = "done"
        /\ wind_ret = [raised |-> "none", val |-> res.val]
        /\ warned <=> RepeatedValue

\* C18 witness: the list [2, 4, 2] came back as it is, with a warning.
C18_Witness ==
    /\ wind_pc = "done"
    /\ called = "set_resolution"
    /\ res.kind = "iterable"
    /\ res.val.cells = <<Num(2), Num(4), Num(2)>>
    /\ wind_ret.val.cells = <<Num(2), Num(4), Num(2)>>
    /\ warned

\* C19: apparent_wind_to_true and true_wind_to_apparent raise a
\* WindException whenever the wind array has a NaN or an infinite element,
\* and return no converted array.
C19_NonFiniteRaisesWindException ==
    (/\ called \in {"apparent_wind_to_true", "true_wind_to_apparent"}
     /\ \E k \in 1..Len(wind.cells) : wind.cells[k] \in {Nan, Inf}
     /\ WindEnded) =>
        /\ wind_pc = "raised"
        /\ wind_ret = [raised |-> "WindException", val |-> <<>>]

\* C20: WindAngleCorrectingInfluenceModel.add_influence evaluates the polar
\* diagram at (ws, (wa + wa_shift) mod 360) for every pair (ws, wa) of the
\* influence data, for single values as for lists and arrays.
C20_CorrectionAdded ==
    (/\ infl_pc = "done"
     /\ model.cls = "WindAngleCorrectingInfluenceModel"
     /\ influence_data.kind # "none") =>
        LET shifted(ws, wa) == PdCall(ws, (wa + model.wa_shift) % 360)
        IN  IF influence_data.kind = "value"
            THEN /\ pd_calls = <<shifted(influence_data.TWS, influence_data.TWA)>>
                 /\ speed.val = shifted(influence_data.TWS, influence_data.TWA)
            ELSE /\ Len(pd_calls) = Len(influence_data.TWS)
                 /\ \A k \in 1..Len(pd_calls) :
                        pd_calls[k] = shifted(influence_data.TWS[k],
                                              influence_data.TWA[k])
                 /\ speed.val = pd_calls

\* --------------------------------------- vocabulary of the influence claims
\* add_influence of the model of class cls has returned
Added(cls) ==
    /\ infl_pc = "done"
    /\ influence_data.kind # "none"
    /\ model.cls = cls

\* remove_influence has returned or raised
Removed == infl_pc \in {"done", "raised"} /\ data.kind # "none"

\* the list of the boat speeds pd(ws_i, wa_i), one per pair, in input order
SpeedPerPair ==
    /\ speed.kind = "list"
    /\ Len(speed.val) = Len(influence_data.TWS)
    /\ \A k \in 1..Len(speed.val) :
           speed.val[k] = PdCall(influence_data.TWS[k], influence_data.TWA[k])

\* the single result of pd(TWS, TWA), called once with what is under the keys
SpeedOfOneCall ==
    /\ speed.kind = "value"
    /\ Len(pd_calls) = 1
    /\ speed.val = pd_calls[1]
    /\ pd_calls[1].ws = influence_data.TWS
    /\ pd_calls[1].wa = influence_data.TWA

RowPerDataPoint ==
    LET speed_key == IF "BSP" \in DOMAIN data.dict THEN "BSP" ELSE "SOG"
        column == IF data.kind = "list" THEN data.dict[speed_key]
                  ELSE <<data.dict[speed_key]>>
    IN  /\ infl_pc = "done"
        /\ wind_data.raised = "none"
        /\ wind_data.val.shape = <<data.n, 3>>
        /\ \A i \in 1..data.n : wind_data.val.cells[3 * i] = Num(column[i])

\* the data has the apparent wind or the true wind
SufficientWind ==
    \/ {"AWA", "AWS"} \subseteq DOMAIN data.dict
    \/ {"TWA", "TWS"} \subseteq DOMAIN data.dict

\* C22: remove_influence of both models returns an (n, 3) array with one
\* row per data point, the speed from "BSP" or else from "SOG", for data
\* with the true or the apparent wind, as lists or as single values; data
\* with neither pair of wind keys raises InfluenceException.
C22_TrueWindRows ==
    Removed =>
        IF ~SufficientWind
        THEN infl_pc = "raised" /\ wind_data.raised = "InfluenceException"
        ELSE ({"BSP", "SOG"} \cap DOMAIN data.dict # {}) => RowPerDataPoint

\* ------------------------------------- vocabulary of the later filler claims
\* the cell p of the input as the point (ws, wa, bsp)
PointAt(p) == <<ws_res[p[2]], wa_res[p[1]], At(bsps, p)>>

\* the known cells within Euclidean distance 2.0 of cell p as points, in
\* row-major scan order
NearbyInScanOrder(p) ==
    LET place(k) == <<((k - 1) \div Len(ws_res)) + 1, ((k - 1) % Len(ws_res)) + 1>>
        cells == [k \in 1..(Len(wa_res) * Len(ws_res)) |-> place(k)]
        near == SelectSeq(cells,
                    LAMBDA q : ~IsNan(At(bsps, q)) /\ Dist2(p, q) <= 4)
    IN  [k \in 1..Len(near) |-> PointAt(near[k])]

\* the calls of interpolator.interpolate made for cell p
CallsFor(p) == SelectSeq(calls, LAMBDA c : c.cell = p)

\* max(0, val) as Python computes it: 0 for NaN as well
Max0(val) == IF val.nan \/ val.v < 0 THEN Num(0) ELSE val

\* C23: an unknown cell of a table with at least 3 known cells and a known
\* cell in range is filled with max(0, interpolate(subset, (ws, wa))),
\* where subset is exactly the known cells at Euclidean distance <= 2.0 (a
\* point at distance exactly 2.0 included, one farther excluded), in
\* row-major scan order; the interpolator is asked once for the cell.
C23_NeighbourhoodFill ==
    Returned =>
        \A p \in InRange :
            \E c \in {CallsFor(p)} :
                /\ Len(c) = 1
                /\ \E pts \in {{c[1].pts[k] : k \in 1..Len(c[1].pts)}} :
                       \A q \in Known(bsps) :
                           /\ Dist2(p, q) = 4 => PointAt(q) \in pts
                           /\ Dist2(p, q) > 4 => PointAt(q) \notin pts
                /\ c[1].pts = NearbyInScanOrder(p)
                /\ ~interp[p].raised => At(result.bsps, p) = Max0(interp[p].val)

\* C23 witness: an unknown cell with a known cell at distance exactly 2.0
\* and a known cell farther away, filled with the interpolated value.
C23_Witness ==
    /\ Returned
    /\ \E p \in InRange :
        /\ \E q \in Known(bsps) : Dist2(p, q) = 4
        /\ \E q \in Known(bsps) : Dist2(p, q) > 4
        /\ Len(CallsFor(p)[1].pts) >= 2
        /\ interp[p] = Return(Num(3))
        /\ At(result.bsps, p) = Num(3)

\* C24: interpolator.interpolate is called only for unknown cells of a
\* table with at least one unknown and at least 3 known cells, and only
\* with a non-empty set of points: never on the passthrough path, on the
\* sparse path, for a known cell or with an empty neighbourhood.
C24_InterpolatorGuarded ==
    calls # <<>> =>
        /\ Unknown(bsps) # {}
        /\ Cardinality(Known(bsps)) >= 3
        /\ \A k \in 1..Len(calls) :
            /\ IsNan(At(bsps, calls[k].cell))
            /\ calls[k].pts # <<>>

\* C24 witness: a fill in which the interpolator was asked for one unknown
\* cell and not for another one, which has no known cell in range.
C24_Witness ==
    /\ Returned
    /\ Queried # {}
    /\ \E p \in Unknown(bsps) : Nearby(p) = {} /\ p \notin Queried

\* C25: the value filled into an unknown cell depends only on the known
\* cells of the input and on the cell's own coordinate: the points handed
\* to the interpolator are known cells of the input, never filled ones, and
\* every unknown cell has the value that filling it alone gives, so every
\* order of filling gives the matrix of the row-major loop.
C25_PerCellIndependence ==
    Returned =>
        /\ \A k \in 1..Len(calls) : \A n \in 1..Len(calls[k].pts) :
               \E q \in Known(bsps) : calls[k].pts[n] = PointAt(q)
        /\ \A p \in Unknown(bsps) :
               At(result.bsps, p) =
                   IF Cardinality(Known(bsps)) < 3 \/ Nearby(p) = {} THEN Num(0)
                   ELSE IF interp[p].raised THEN Num(0)
                   ELSE Max0(interp[p].val)

\* C25 witness: two unknown cells within range of each other, the first
\* filled with a positive value, which the points of the second leave out.
C25_Witness ==
    /\ Returned
    /\ \E p \in InRange, q \in InRange :
        /\ p # q
        /\ Dist2(p, q) <= 4
        /\ p[1] < q[1] \/ (p[1] = q[1] /\ p[2] < q[2])
        /\ At(result.bsps, p) = Num(3)
        /\ \A n \in 1..Len(CallsFor(q)[1].pts) :
               CallsFor(q)[1].pts[n][1] # ws_res[p[2]]
               \/ CallsFor(q)[1].pts[n][2] # wa_res[p[1]]

\* C26 as claimed: interpolate_missing_values never changes the matrix and
\* the axes it is given, and in every branch the matrix it returns is a
\* newly built object, not the caller's own matrix.
C26_AlwaysNewMatrix ==
    [][/\ args' = args
       /\ pc' = "done" => ~aliased']_vars

\* C26 amended: interpolate_missing_values never changes the matrix and the
\* axes it is given; the matrix it returns is a newly built list of lists
\* on the sparse and on the interpolation branch, and on the passthrough
\* branch, for a matrix with no unknown cell, it is the caller's own matrix
\* object.
C26_NewMatrixUnlessPassthrough ==
    [][/\ args' = args
       /\ pc' = "done" => (aliased' <=> Unknown(bsps') = {})]_vars

\* C26 witness: the passthrough returned the caller's own matrix.
C26_Witness ==
    /\ Returned
    /\ Unknown(bsps) = {}
    /\ Cardinality(Positions(bsps)) >= 3
    /\ aliased
    /\ result.bsps = bsps

\* ---------------------------------- vocabulary of the later from_csv claims
\* the step of from_csv in which its copy of the filler returns
FillerStep == csv_pc = "read" /\ interpolate_missing /\ csv_pc' = "construct"

\* from_csv has run its copy of the filler
FillerRan == pc # "idle"

\* C27: _reading._interpolate_missing_values, which from_csv runs, and
\* _incompletedatahandler.interpolate_missing_values return the same matrix
\* and the same flag for the same axes, matrix and interpolator.
C27_CopiesAgree ==
    [][FillerStep =>
          result' = InterpolateMissingValues(ws_res, wa_res, bsps, interp')]_vars

\* C27 witness: from_csv ran its copy on a table with a gap, which was
\* filled with the interpolated value.
C27_Witness ==
    /\ FillerRan
    /\ csv_pc = "construct"
    /\ result.flag
    /\ result.bsps = bsps
    /\ \E i \in 1..Len(wa_res), j \in 1..Len(ws_res) :
           interp[<<i, j>>] = Return(Num(3)) /\ bsps[i][j] = Num(3)

\* the matrix has a NaN, wherever in its rows
AnyMissing(m) == \E i \in 1..Len(m) : \E j \in 1..Len(m[i]) : IsNan(m[i][j])

\* the number of cells under the axes that are not NaN
KnownUnderAxes(ws, wa, m) ==
    Cardinality({p \in (1..Len(wa)) \X (1..Len(ws)) : ~IsNan(m[p[1]][p[2]])})

\* C28 as claimed: the matrix the filler returns has the number of rows and
\* the row lengths of the matrix it was given, in every branch.
C28_ShapePreserved ==
    [][FillerStep => SameShape(bsps', bsps)]_vars

\* C28 amended: the passthrough and the sparse zero-fill return a matrix
\* with the number of rows and the row lengths of the input; the
\* interpolation branch returns len(wa_res) rows of len(ws_res) values
\* each, so a matrix of shape (len(wa_res), len(ws_res)) stays that shape
\* in every branch, and a row with more values than ws_res is cut to
\* len(ws_res) values on the interpolation branch.
C28_ShapeOfAxes ==
    [][FillerStep =>
          /\ Len(bsps') = Len(bsps)
          /\ IF AnyMissing(bsps) /\ KnownUnderAxes(ws_res, wa_res, bsps) >= 3
             THEN \A i \in 1..Len(bsps') : Len(bsps'[i]) = Len(ws_res)
             ELSE SameShape(bsps', bsps)
          /\ (\A i \in 1..Len(bsps) : Len(bsps[i]) = Len(ws_res)) =>
                 SameShape(bsps', bsps)]_vars

\* C28 witness: a line of the file has more boat speeds than the header has
\* wind speeds, and its row came back from the interpolation branch with as
\* many values as there are wind speeds.
C28_Witness ==
    /\ FillerRan
    /\ csv_pc = "construct"
    /\ result.flag
    /\ Len(bsps) = Len(DataLines)
    /\ \E i \in 1..Len(bsps) :
        /\ Len(DataLines[i]) - 1 > Len(ws_res)
        /\ Len(bsps[i]) = Len(ws_res)

\* C29: for fmt = "hro" from_csv ignores interpolate_missing and the
\* interpolator: the filler is not run and no interpolation flag is set on
\* the diagram returned, which is what the subclass builds from the file;
\* the filler runs only for array, orc and opencpn, and there exactly when
\* interpolate_missing is true.
C29_HroIgnoresInterpolation ==
    /\ FillerRan => Extern /\ interpolate_missing
    /\ (Extern /\ interpolate_missing
            /\ csv_pc \in {"construct", "done", "symmetrized"}) => FillerRan
    /\ fmt = "hro" =>
        /\ ~interpolation_performed
        /\ interp = <<>>
        /\ csv_pc = "done" =>
               pd = FromCsv(Rstrip(Readline(file, 1))[1], file, 2)

\* C29 witness: an hro file read with interpolate_missing = True.
C29_Witness ==
    /\ fmt = "hro"
    /\ interpolate_missing
    /\ csv_pc = "done"
    /\ pd.cls = "PolarDiagramTable"
    /\ Len(pd.lines) >= 1
    /\ ~FillerRan

\* the wind array has two dimensions and three columns
CorrectlyShaped == Len(wind.shape) = 2 /\ wind.shape[2] = 3

\* the check for NaN and infinite elements lets the wind array pass
PassesFiniteCheck ==
    ~check_finite \/ \A k \in 1..Len(wind.cells) : wind.cells[k] \notin {Nan, Inf}

\* C30: convert_wind rejects every input that is not an array of two
\* dimensions with exactly three columns, arrays of one and of three
\* dimensions included, by raising WindException with nothing converted,
\* and with tw = True returns a correctly shaped input unchanged.
C30_ShapeRejected ==
    (called = "convert_wind" /\ WindEnded /\ PassesFiniteCheck) =>
        /\ ~CorrectlyShaped =>
               /\ wind_pc = "raised"
               /\ wind_ret.raised = "WindException"
        /\ (CorrectlyShaped /\ tw) =>
               /\ wind_pc = "done"
               /\ wind_ret.val = wind

====
